---- MODULE Spec2Model ----
(***************************************************************************)
(* A model of the versioned feature gate of k8s.io/component-base          *)
(* (featuregate/feature_gate.go): the registry of known features and of    *)
(* their enablement overrides, its resolution of a feature's spec at the   *)
(* compatibility version, and its copy-on-write publication of snapshots.  *)
(***************************************************************************)
EXTENDS Integers, Sequences, FiniteSets, TLC

VARIABLES
    known,                  \* f.known:   map[Feature]VersionedSpecs (published snapshot)
    enabled,                \* f.enabled: map[Feature]bool           (published snapshot)
    closed,                 \* f.closed
    compatibilityVersion,   \* f.compatibilityVersion
    last,                   \* the last completed call: operation and error
    lock,                   \* f.lock: the thread holding it, or NoThread
    pc,                     \* per thread: the statement it is at
    loc,                    \* per thread: its local variables
    call,                   \* a pure function's call: arguments and result
    copy,                   \* the featureGate that f.DeepCopy() returned
    GroupVersionConfigs,    \* o.GroupVersionConfigs: map[schema.GroupVersion]bool
    ResourceConfigs,        \* o.ResourceConfigs: map[schema.GroupVersionResource]bool
    resourceConfig,         \* o.compatibilityVersion and o's registry, fixed at construction
    evaluator,              \* the resourceExpirationEvaluator's fields, fixed at construction
    versionedResourcesStorageMap,   \* map[apiVersion]map[resourceName]rest.Storage
    effective               \* the effectiveVersion's three atomic pointers

vars == <<known, enabled, closed, compatibilityVersion, last, lock, pc, loc, call,
          copy, GroupVersionConfigs, ResourceConfigs, resourceConfig,
          evaluator, versionedResourcesStorageMap, effective>>

regVars == <<known, enabled, closed, compatibilityVersion>>
concVars == <<lock, pc, loc>>
\* the objects beside the registry f
copyVars == <<copy>>
configVars == <<GroupVersionConfigs, ResourceConfigs, resourceConfig>>
evaluatorVars == <<evaluator, versionedResourcesStorageMap>>
effectiveVars == <<effective>>
otherVars == <<copyVars, configVars, evaluatorVars, effectiveVars>>

----------------------------------------------------------------------------
(* Bounds of the model. *)

\* versions are major.minor with major in 0..MaxMajor, minor in 0..MaxMinor
MaxMajor == 1
MaxMinor == 2
\* the longest VersionedSpecs given to getCurrentVersion on its own
MaxLen == 3
\* the most keys of one SetFromMap call
MaxKeys == 2
\* the most arguments of one variadic call on a ResourceConfig
MaxArgs == 2
MaxChars == 5     \* the longest string given to Set, in separators and words

----------------------------------------------------------------------------
(* Feature names, stages, versions. *)

allAlphaGate == "AllAlpha"
allBetaGate == "AllBeta"

PreAlpha == "PRE-ALPHA"
Alpha == "ALPHA"
Beta == "BETA"
GA == ""
Deprecated == "DEPRECATED"

\* the features a caller registers, and every name a caller may pass
UserFeatures == {"F1", "F2"}
Features == {allAlphaGate, allBetaGate} \cup UserFeatures

\* semver.Version, major and minor only
V(major, minor) == <<major, minor>>
ZeroVersion == V(0, 0)

\* semver.Version.LT as used by VersionedSpecs.Less
VersionLT(a, b) == a[1] < b[1] \/ (a[1] = b[1] /\ a[2] < b[2])
\* semver.Version.GT as used by getCurrentVersion
VersionGT(a, b) == VersionLT(b, a)

FeatureSpec(d, l, p, v) ==
    [Default |-> d, LockToDefault |-> l, PreRelease |-> p, Version |-> v]

\* a Go map: a function on the set of its keys
EmptyMap == [k \in {} |-> TRUE]
MapPut(m, k, v) == [x \in (DOMAIN m) \cup {k} |-> IF x = k THEN v ELSE m[x]]

Front(s) == SubSeq(s, 1, Len(s) - 1)
Last(s) == s[Len(s)]

----------------------------------------------------------------------------
(* sort.Sort(VersionedSpecs): an insertion sort for the short slices here,  *)
(* an element moving left only past elements it is Less than.               *)

RECURSIVE insertSpec(_, _)
insertSpec(p, x) ==
    IF p = <<>> THEN <<x>>
    ELSE IF VersionLT(x.Version, Last(p).Version)
         THEN Append(insertSpec(Front(p), x), Last(p))
         ELSE Append(p, x)

\* a slice left in the order the caller wrote it
specsAsGiven(s) == s

RECURSIVE SortSpecs(_)
SortSpecs(s) ==
    IF s = <<>> THEN <<>> ELSE insertSpec(SortSpecs(Front(s)), Last(s))

----------------------------------------------------------------------------
(* getCurrentVersion: the spec in force at a compatibility version. *)

SentinelSpec == FeatureSpec(FALSE, FALSE, PreAlpha, ZeroVersion)

RECURSIVE getCurrentVersionGE(_, _)
getCurrentVersionGE(v, cVer) ==
    IF v = <<>> THEN SentinelSpec
    ELSE IF ~VersionLT(Last(v).Version, cVer)
         THEN getCurrentVersionGE(Front(v), cVer)
         ELSE Last(v)

RECURSIVE getCurrentVersion(_, _)
getCurrentVersion(v, cVer) ==
    IF v = <<>> THEN SentinelSpec
    ELSE IF VersionGT(Last(v).Version, cVer)
         THEN getCurrentVersion(Front(v), cVer)
         ELSE Last(v)

----------------------------------------------------------------------------
(* The registry: construction and the special gates. *)

binaryVersion == V(1, 2)

defaultFeatures ==
    [k \in {allAlphaGate, allBetaGate} |->
        IF k = allAlphaGate
        THEN <<FeatureSpec(FALSE, FALSE, Alpha, ZeroVersion)>>
        ELSE <<FeatureSpec(FALSE, FALSE, Beta, ZeroVersion)>>]

\* the gates of every stage, whatever stage is asked for
gatesOfAnyStage(kn, stage, cVer) == (DOMAIN kn) \ {allAlphaGate, allBetaGate}

\* the gates of stage `stage` at cVer, other than the two toggles
gatesOfStage(kn, stage, cVer) ==
    {k \in (DOMAIN kn) \ {allAlphaGate, allBetaGate} :
        getCurrentVersion(kn[k], cVer).PreRelease = stage}

\* a backfill that overwrites the overrides it finds
setUnsetGatesOverwrite(kn, en, val, cVer, stage) ==
    [k \in (DOMAIN en) \cup gatesOfStage(kn, stage, cVer) |->
        IF k \in gatesOfStage(kn, stage, cVer) THEN val ELSE en[k]]

\* the body shared by setUnsetAlphaGates and setUnsetBetaGates
setUnsetGates(kn, en, val, cVer, stage) ==
    [k \in (DOMAIN en) \cup gatesOfStage(kn, stage, cVer) |->
        IF k \in DOMAIN en THEN en[k] ELSE val]

setUnsetAlphaGates(kn, en, val, cVer) == setUnsetGates(kn, en, val, cVer, Alpha)
setUnsetBetaGates(kn, en, val, cVer) == setUnsetGates(kn, en, val, cVer, Beta)

\* specialFeatures: the keys with a special function, and its application
specialFeatures == {allAlphaGate, allBetaGate}

\* toggles that make every gate of their stage follow them
applySpecialFollowed(key, kn, en, val, cVer) ==
    setUnsetGatesOverwrite(kn, en, val, cVer, IF key = allAlphaGate THEN Alpha ELSE Beta)

applySpecial(key, kn, en, val, cVer) ==
    IF key = allAlphaGate THEN setUnsetAlphaGates(kn, en, val, cVer)
    ELSE setUnsetBetaGates(kn, en, val, cVer)

\* every slice of a known map sorted, as the copy loops leave them
sortAll(kn) == [k \in DOMAIN kn |-> SortSpecs(kn[k])]

\* the orders in which a range over a map with keys S may visit them
Orders(S) ==
    {o \in [1..Cardinality(S) -> S] : {o[i] : i \in 1..Cardinality(S)} = S}

----------------------------------------------------------------------------
(* SetFromMap. *)

\* a loop body that records a value only for a feature that has a spec in force
setKeyInForce(kn, en, k, v, cVer) ==
    IF k \in specialFeatures
    THEN applySpecial(k, kn, MapPut(en, k, v), v, cVer)
    ELSE IF getCurrentVersion(kn[k], cVer) = SentinelSpec THEN en
    ELSE MapPut(en, k, v)

\* enabled[key] = v and, for a special key, its function applied
setKey(kn, en, k, v, cVer) ==
    IF k \in specialFeatures
    THEN applySpecial(k, kn, MapPut(en, k, v), v, cVer)
    ELSE MapPut(en, k, v)

\* a check that lets every value through
lockedNever(currentVersion, v) == FALSE

\* the check of LockToDefault on the spec in force
locked(currentVersion, v) ==
    currentVersion.LockToDefault /\ currentVersion.Default # v

\* a loop that records a value for a name that is not in known
RECURSIVE setLoopAnyName(_, _, _, _, _)
setLoopAnyName(kn, en, m, order, cVer) ==
    IF order = <<>> THEN [err |-> "nil", enabled |-> en]
    ELSE IF Head(order) \notin DOMAIN kn
         THEN setLoopAnyName(kn, MapPut(en, Head(order), m[Head(order)]),
                             m, Tail(order), cVer)
    ELSE IF locked(getCurrentVersion(kn[Head(order)], cVer), m[Head(order)])
         THEN [err |-> "locked", enabled |-> en]
    ELSE setLoopAnyName(kn, setKey(kn, en, Head(order), m[Head(order)], cVer),
                        m, Tail(order), cVer)

\* the loop over m, visiting its keys in `order`; `en` is the local copy
RECURSIVE setLoop(_, _, _, _, _)
setLoop(kn, en, m, order, cVer) ==
    IF order = <<>> THEN [err |-> "nil", enabled |-> en]
    ELSE IF Head(order) \notin DOMAIN kn
         THEN [err |-> "unrecognized", enabled |-> en]
    ELSE IF locked(getCurrentVersion(kn[Head(order)], cVer), m[Head(order)])
         THEN [err |-> "locked", enabled |-> en]
    ELSE setLoop(kn, setKey(kn, en, Head(order), m[Head(order)], cVer),
                 m, Tail(order), cVer)

\* a commit that also publishes what the loop wrote before it failed
setCommitPartial(r, kn, en) ==
    [err |-> r.err, known |-> kn, enabled |-> r.enabled]

\* the end of SetFromMap: the snapshots it leaves published. The new maps are
\* stored only when no key failed; kn is the copy of known, whose slices the
\* copy loop has sorted in place, and en the enabled map found published
setCommit(r, kn, en) ==
    [err |-> r.err, known |-> kn,
     enabled |-> IF r.err = "nil" THEN r.enabled ELSE en]

\* SetFromMap(m) on a registry with snapshots kn and en, ranging over m in `order`
setFromMapSorted(kn, en, cVer, m, order) ==
    setCommit(setLoop(kn, en, m, order, cVer), kn, en)
setFromMapResult(kn, en, cVer, m, order) ==
    setFromMapSorted(sortAll(kn), en, cVer, m, order)

Call(op, err) == [op |-> op, err |-> err]

SetFromMap(m, order) ==
    \E r \in {setFromMapResult(known, enabled, compatibilityVersion, m, order)} :
        /\ known' = r.known
        /\ enabled' = r.enabled
        /\ last' = Call("SetFromMap", r.err)
        /\ UNCHANGED <<closed, compatibilityVersion, concVars, call, otherVars>>

----------------------------------------------------------------------------
(* Add and AddVersioned. *)

\* kn is the local copy, pub the published map whose slices the copy shares:
\* sort.Sort(existingSpec) sorts a shared slice in place
RECURSIVE addLoop(_, _, _, _)
addLoop(kn, pub, features, order) ==
    IF order = <<>> THEN [err |-> "nil", known |-> kn, pub |-> pub]
    ELSE IF Head(order) \notin DOMAIN kn
         THEN addLoop(MapPut(kn, Head(order), SortSpecs(features[Head(order)])),
                      pub, features, Tail(order))
    ELSE IF SortSpecs(kn[Head(order)]) = SortSpecs(features[Head(order)])
         THEN addLoop([kn EXCEPT ![Head(order)] = SortSpecs(@)],
                      [pub EXCEPT ![Head(order)] = SortSpecs(@)],
                      features, Tail(order))
    ELSE [err |-> "different",
          known |-> [kn EXCEPT ![Head(order)] = SortSpecs(@)],
          pub |-> [pub EXCEPT ![Head(order)] = SortSpecs(@)]]

\* the end of AddVersioned: the known snapshot it leaves published
addCommit(r) ==
    [err |-> r.err, known |-> IF r.err = "nil" THEN r.known ELSE r.pub]

\* AddVersioned without the check of f.closed
addVersionedResultOpen(kn, isClosed, features, order) ==
    addCommit(addLoop(kn, kn, features, order))

\* AddVersioned(features) on a registry with snapshot kn
addVersionedResult(kn, isClosed, features, order) ==
    IF isClosed THEN [err |-> "closed", known |-> kn]
    ELSE addCommit(addLoop(kn, kn, features, order))

AddVersionedAs(op, features, order) ==
    \E r \in {addVersionedResult(known, closed, features, order)} :
        /\ known' = r.known
        /\ last' = Call(op, r.err)
        /\ UNCHANGED <<enabled, closed, compatibilityVersion, concVars, call, otherVars>>

AddVersioned(features, order) == AddVersionedAs("AddVersioned", features, order)

\* Add: every spec is stamped with the binary version and wrapped singly
\* an Add that leaves the Version of a spec as the caller wrote it
stampNothing(features) ==
    [name \in DOMAIN features |-> <<features[name]>>]

stamp(features) ==
    [name \in DOMAIN features |->
        <<[features[name] EXCEPT !.Version = binaryVersion]>>]

Add(features, order) == AddVersionedAs("Add", stamp(features), order)

----------------------------------------------------------------------------
(* SetCompatibilityVersion, AddFlag, Enabled. *)

\* a SetCompatibilityVersion that forgets the overrides
SetCompatibilityVersionForgetting(v) ==
    /\ compatibilityVersion' = v
    /\ enabled' = EmptyMap
    /\ last' = Call("SetCompatibilityVersion", "nil")
    /\ UNCHANGED <<known, closed, concVars, call, otherVars>>

SetCompatibilityVersion(v) ==
    /\ compatibilityVersion' = v
    /\ last' = Call("SetCompatibilityVersion", "nil")
    /\ UNCHANGED <<known, enabled, closed, concVars, call, otherVars>>

AddFlag ==
    /\ closed' = TRUE
    /\ last' = Call("AddFlag", "nil")
    /\ UNCHANGED <<known, enabled, compatibilityVersion, concVars, call, otherVars>>

\* what Enabled does: it returns a value, or it panics
Return(v) == [panic |-> FALSE, value |-> v]
Panic == [panic |-> TRUE, value |-> FALSE]

\* Enabled on given snapshots, resolving at the binary version
enabledAtBinary(en, kn, cVer, key) ==
    IF key \in DOMAIN en THEN Return(en[key])
    ELSE IF key \in DOMAIN kn
         THEN Return(getCurrentVersion(kn[key], binaryVersion).Default)
         ELSE Panic

\* Enabled on given snapshots of enabled and known
enabledAt(en, kn, cVer, key) ==
    IF key \in DOMAIN en THEN Return(en[key])
    ELSE IF key \in DOMAIN kn
         THEN Return(getCurrentVersion(kn[key], cVer).Default)
         ELSE Panic

Enabled(key) == enabledAt(enabled, known, compatibilityVersion, key)

----------------------------------------------------------------------------
(* The calls a client makes: the arguments are drawn from these sets. *)

\* the orders of a range over each map of ms
Ranged(ms) == UNION {{<<m, o>> : o \in Orders(DOMAIN m)} : m \in ms}

\* the maps from some of the keys S to the values T
Maps(S, T) == UNION {[D -> T] : D \in SUBSET S}

\* the submaps of the map m
SubMaps(m) == {[k \in D |-> m[k]] : D \in SUBSET DOMAIN m}

CompatVersions == {V(1, 0), V(1, 1), V(1, 2)}

\* versioned specs as callers write them, newest first or oldest first
AlphaThenBeta ==
    <<FeatureSpec(TRUE, FALSE, Beta, V(1, 2)), FeatureSpec(FALSE, FALSE, Alpha, V(1, 1))>>
LockedAlphaThenGA ==
    <<FeatureSpec(FALSE, TRUE, Alpha, V(1, 1)), FeatureSpec(TRUE, TRUE, GA, V(1, 2))>>

\* specs given to Add: their Version is not set
PlainSpecs == { FeatureSpec(TRUE, FALSE, Alpha, ZeroVersion) }

SetArgs == {m \in Maps(Features, BOOLEAN) : Cardinality(DOMAIN m) <= MaxKeys}
AddVersionedArgs ==
    SubMaps([k \in UserFeatures |->
                IF k = "F1" THEN AlphaThenBeta ELSE LockedAlphaThenGA]) \ {EmptyMap}
\* Add registers F1; F2 is registered with its versions only
AddArgs == Maps({"F1"}, PlainSpecs) \ {EmptyMap}

SetCalls == Ranged(SetArgs)
AddVersionedCalls == Ranged(AddVersionedArgs)
AddCalls == Ranged(AddArgs)

----------------------------------------------------------------------------
(* The registry used by one caller at a time. *)

\* no DeepCopy made, and a ResourceConfig nobody uses
NoCopy ==
    [made |-> FALSE, known |-> EmptyMap, enabled |-> EmptyMap, closed |-> FALSE,
     compatibilityVersion |-> ZeroVersion, shared |-> {}]
NoRegistry == [isNil |-> TRUE, groupVersions |-> EmptyMap, resources |-> EmptyMap]
\* no resourceExpirationEvaluator constructed, no storage map handed to it
NoEvaluator ==
    [compatibilityVersion |-> ZeroVersion, isAlpha |-> FALSE,
     strictRemovedHandlingInAlpha |-> FALSE, serveRemovedAPIsOneMoreRelease |-> FALSE]
NoStorage ==
    /\ evaluator = NoEvaluator
    /\ versionedResourcesStorageMap = EmptyMap
\* no effectiveVersion constructed
NoEffective ==
    [binaryVersion |-> <<>>, emulationVersion |-> <<>>, minCompatibilityVersion |-> <<>>]
NoOthers ==
    /\ copy = NoCopy
    /\ GroupVersionConfigs = EmptyMap
    /\ ResourceConfigs = EmptyMap
    /\ resourceConfig = [compatibilityVersion |-> ZeroVersion, registry |-> NoRegistry,
                         perResource |-> FALSE]
    /\ NoStorage
    /\ effective = NoEffective

\* newFeatureGate(binaryVersion, binaryVersion)
InitRegistry ==
    /\ known = defaultFeatures
    /\ enabled = EmptyMap
    /\ closed = FALSE
    /\ compatibilityVersion = binaryVersion

NoThread == "none"
Threads == {"t1", "t2"}
NoCall == [fn |-> "none"]

\* no version read yet
NoVersion == <<>>

\* a thread's locals: of a SetFromMap (m, order, before, r, kn), of an Enabled
\* (key, ret) with the values Enabled(key) has had while the call runs (seen),
\* of an AddVersioned (features, order, r.err, kn), and of a read of
\* f.compatibilityVersion (cVer)
IdleLoc ==
    [m |-> EmptyMap, order |-> <<>>, before |-> EmptyMap,
     r |-> [err |-> "nil", enabled |-> EmptyMap],
     key |-> "", seen |-> {}, ret |-> Return(FALSE),
     features |-> EmptyMap, kn |-> EmptyMap, fn |-> "", v |-> "",
     cVer |-> NoVersion]

IdleThreads ==
    /\ lock = NoThread
    /\ pc = [t \in Threads |-> "idle"]
    /\ loc = [t \in Threads |-> IdleLoc]

Init ==
    /\ InitRegistry
    /\ last = Call("NewFeatureGate", "nil")
    /\ IdleThreads
    /\ call = NoCall
    /\ NoOthers

\* a registry that is never bound to a flag set
Next ==
    \/ \E c \in SetCalls : SetFromMap(c[1], c[2])
    \/ \E c \in AddVersionedCalls : AddVersioned(c[1], c[2])
    \/ \E c \in AddCalls : Add(c[1], c[2])
    \/ \E v \in CompatVersions : SetCompatibilityVersion(v)

Spec == Init /\ [][Next]_vars

----------------------------------------------------------------------------
(* Registration: richer spec lists, AddFlag, and a few calls of the others. *)

\* two specs of one version, in the two orders a caller may write them
TwoAtOneVersion ==
    <<FeatureSpec(FALSE, FALSE, Alpha, V(1, 1)), FeatureSpec(TRUE, FALSE, Beta, V(1, 1))>>
TwoAtOneVersionSwapped ==
    <<FeatureSpec(TRUE, FALSE, Beta, V(1, 1)), FeatureSpec(FALSE, FALSE, Alpha, V(1, 1))>>

RegisterLists ==
    [k \in UserFeatures |->
        IF k = "F1" THEN {AlphaThenBeta, TwoAtOneVersion, TwoAtOneVersionSwapped}
        ELSE {LockedAlphaThenGA}]

RegisterArgs ==
    {m \in Maps(UserFeatures, UNION {RegisterLists[k] : k \in UserFeatures}) :
        m # EmptyMap /\ \A k \in DOMAIN m : m[k] \in RegisterLists[k]}
RegisterCalls == Ranged(RegisterArgs)

RegisterSetCalls ==
    Ranged({[k \in {allAlphaGate} |-> TRUE], [k \in {"F1"} |-> TRUE]})

NextRegister ==
    \/ \E c \in RegisterCalls : AddVersioned(c[1], c[2])
    \/ \E c \in AddCalls : Add(c[1], c[2])
    \/ AddFlag
    \/ \E c \in RegisterSetCalls : SetFromMap(c[1], c[2])
    \/ \E v \in CompatVersions : SetCompatibilityVersion(v)

SpecRegister == Init /\ [][NextRegister]_vars

----------------------------------------------------------------------------
(* getCurrentVersion on its own: one call on a sorted slice. *)

VersionGrid == {V(major, minor) : major \in 0..MaxMajor, minor \in 0..MaxMinor}

\* specs told apart by their Default, one of each per version
GridSpecs == {FeatureSpec(d, FALSE, Alpha, v) : d \in BOOLEAN, v \in VersionGrid}

\* what sort.Sort leaves: no entry Less than the one before it
IsSorted(s) == \A i \in 1..(Len(s) - 1) : ~VersionLT(s[i + 1].Version, s[i].Version)

SortedSpecs == {s \in UNION {[1..n -> GridSpecs] : n \in 0..MaxLen} : IsSorted(s)}

InitGetCurrentVersion ==
    /\ InitRegistry
    /\ last = Call("NewFeatureGate", "nil")
    /\ IdleThreads
    /\ call \in {[fn |-> "getCurrentVersion", v |-> s, cVer |-> c,
                  done |-> FALSE, ret |-> SentinelSpec] :
                    s \in SortedSpecs, c \in VersionGrid}
    /\ NoOthers

GetCurrentVersion ==
    /\ ~call.done
    /\ call' = [call EXCEPT !.done = TRUE, !.ret = getCurrentVersion(call.v, call.cVer)]
    /\ UNCHANGED <<regVars, last, concVars, otherVars>>

SpecGetCurrentVersion == InitGetCurrentVersion /\ [][GetCurrentVersion]_vars

----------------------------------------------------------------------------
(* Threads: SetFromMap under f.lock, Enabled without it. A step is one access *)
(* of f.lock, f.known or f.enabled, with the local work that follows it.      *)

\* both features registered, the registry bound to its flag set
RegisteredKnown ==
    [k \in Features |->
        IF k \in DOMAIN defaultFeatures THEN defaultFeatures[k]
        ELSE IF k = "F1" THEN SortSpecs(AlphaThenBeta)
        ELSE SortSpecs(LockedAlphaThenGA)]

InitThreads ==
    /\ known = RegisteredKnown
    /\ enabled = EmptyMap
    /\ closed = TRUE
    /\ compatibilityVersion \in {V(1, 1), V(1, 2)}
    /\ last = Call("AddFlag", "nil")
    /\ IdleThreads
    /\ call = NoCall
    /\ NoOthers

ThreadSetArgs ==
    { [k \in {allAlphaGate} |-> TRUE],
      [k \in {allBetaGate} |-> TRUE],
      [k \in {allAlphaGate, "F1"} |-> k = allAlphaGate],
      [k \in {"F1"} |-> TRUE],
      [k \in {"F2"} |-> FALSE] }
ThreadSetCalls == Ranged(ThreadSetArgs)

\* a writer that sets its first key in the published map itself
publishedFirstKey(en, m, order) ==
    IF order = <<>> THEN en ELSE MapPut(en, Head(order), m[Head(order)])

\* the published enabled map while the loop runs: the loop writes to the copy
publishedDuringLoop(en, m, order) == en

\* a running Enabled notes the value that Enabled(key) has now
observe(l, p, en, kn, cVer) ==
    IF p \in {"EnabledLoadEnabled", "EnabledLoadKnown"}
    THEN [l EXCEPT !.seen = @ \cup {enabledAt(en, kn, cVer, l.key)}]
    ELSE l

\* a mutex that lets everyone in
lockAlwaysFree(l) == TRUE

\* f.lock.Lock() returns when no thread holds the mutex
lockFree(l) == l = NoThread

\* f.lock.Lock()
SetLock(t, m, order) ==
    /\ pc[t] = "idle" /\ lockFree(lock)
    /\ lock' = t
    /\ pc' = [pc EXCEPT ![t] = "SetCopy"]
    /\ loc' = [loc EXCEPT ![t] = [IdleLoc EXCEPT !.m = m, !.order = order,
                                                !.before = enabled]]
    /\ UNCHANGED <<regVars, last, call, otherVars>>

\* the two copy loops and the loop over m
SetCopyAndLoop(t) ==
    /\ pc[t] = "SetCopy"
    /\ \E r \in {setLoop(sortAll(known), enabled, loc[t].m, loc[t].order,
                         compatibilityVersion)} :
       \E en \in {publishedDuringLoop(enabled, loc[t].m, loc[t].order)} :
          /\ known' = sortAll(known)
          /\ enabled' = en
          /\ pc' = [pc EXCEPT ![t] = IF r.err = "nil" THEN "SetStoreKnown"
                                     ELSE "SetUnlock"]
          /\ loc' = [u \in Threads |->
                        IF u = t THEN [loc[t] EXCEPT !.r = r, !.kn = sortAll(known)]
                        ELSE observe(loc[u], pc[u], en, sortAll(known),
                                     compatibilityVersion)]
    /\ UNCHANGED <<closed, compatibilityVersion, last, lock, call, otherVars>>

\* f.known.Store(known)
SetStoreKnown(t) ==
    /\ pc[t] = "SetStoreKnown"
    /\ known' = loc[t].kn
    /\ pc' = [pc EXCEPT ![t] = "SetStoreEnabled"]
    /\ UNCHANGED <<enabled, closed, compatibilityVersion, last, lock, loc, call, otherVars>>

\* f.enabled.Store(enabled)
SetStoreEnabled(t) ==
    /\ pc[t] = "SetStoreEnabled"
    /\ enabled' = loc[t].r.enabled
    /\ pc' = [pc EXCEPT ![t] = "SetUnlock"]
    /\ loc' = [u \in Threads |->
                  observe(loc[u], pc[u], loc[t].r.enabled, known,
                          compatibilityVersion)]
    /\ UNCHANGED <<known, closed, compatibilityVersion, last, lock, call, otherVars>>

\* a return that leaves the mutex held
SetReturnLocked(t) ==
    /\ pc[t] = "SetUnlock"
    /\ pc' = [pc EXCEPT ![t] = "idle"]
    /\ loc' = [loc EXCEPT ![t] = IdleLoc]
    /\ last' = Call("SetFromMap", loc[t].r.err)
    /\ UNCHANGED <<regVars, lock, call, otherVars>>

\* the deferred f.lock.Unlock(), and the return
SetUnlock(t) ==
    /\ pc[t] = "SetUnlock"
    /\ lock' = NoThread
    /\ pc' = [pc EXCEPT ![t] = "idle"]
    /\ loc' = [loc EXCEPT ![t] = IdleLoc]
    /\ last' = Call("SetFromMap", loc[t].r.err)
    /\ UNCHANGED <<regVars, call, otherVars>>

\* Enabled(key) is called
EnabledCall(t, key) ==
    /\ pc[t] = "idle"
    /\ pc' = [pc EXCEPT ![t] = "EnabledLoadEnabled"]
    /\ loc' = [loc EXCEPT ![t] = [IdleLoc EXCEPT !.key = key,
                                                !.seen = {Enabled(key)}]]
    /\ UNCHANGED <<regVars, last, lock, call, otherVars>>

\* f.enabled.Load()[key]
EnabledLoadEnabled(t) ==
    /\ pc[t] = "EnabledLoadEnabled"
    /\ IF loc[t].key \in DOMAIN enabled
       THEN /\ loc' = [loc EXCEPT ![t].ret = Return(enabled[loc[t].key])]
            /\ pc' = [pc EXCEPT ![t] = "EnabledReturn"]
       ELSE /\ loc' = loc
            /\ pc' = [pc EXCEPT ![t] = "EnabledLoadKnown"]
    /\ UNCHANGED <<regVars, last, lock, call, otherVars>>

\* f.known.Load()[key], getCurrentVersion at f.compatibilityVersion, or the panic
EnabledLoadKnown(t) ==
    /\ pc[t] = "EnabledLoadKnown"
    /\ loc' = [loc EXCEPT ![t].ret =
                  IF loc[t].key \in DOMAIN known
                  THEN Return(getCurrentVersion(known[loc[t].key],
                                                compatibilityVersion).Default)
                  ELSE Panic,
                            ![t].cVer =
                  IF loc[t].key \in DOMAIN known THEN compatibilityVersion ELSE @]
    /\ pc' = [pc EXCEPT ![t] = "EnabledReturn"]
    /\ UNCHANGED <<regVars, last, lock, call, otherVars>>

EnabledReturn(t) ==
    /\ pc[t] = "EnabledReturn"
    /\ pc' = [pc EXCEPT ![t] = "idle"]
    /\ loc' = [loc EXCEPT ![t] = IdleLoc]
    /\ last' = Call("Enabled", IF loc[t].ret.panic THEN "panic" ELSE "nil")
    /\ UNCHANGED <<regVars, lock, call, otherVars>>

NextThreads ==
    \E t \in Threads :
        \/ \E c \in ThreadSetCalls : SetLock(t, c[1], c[2])
        \/ SetCopyAndLoop(t)
        \/ SetStoreKnown(t)
        \/ SetStoreEnabled(t)
        \/ SetUnlock(t)
        \/ \E key \in UserFeatures \cup {allAlphaGate} : EnabledCall(t, key)
        \/ EnabledLoadEnabled(t)
        \/ EnabledLoadKnown(t)
        \/ EnabledReturn(t)

SpecThreads == InitThreads /\ [][NextThreads]_vars

----------------------------------------------------------------------------
(* Writers: AddVersioned and SetFromMap on several threads, an open registry. *)

\* f.lock.Lock()
AddLock(t, features, order) ==
    /\ pc[t] = "idle" /\ lockFree(lock)
    /\ lock' = t
    /\ pc' = [pc EXCEPT ![t] = "AddCopy"]
    /\ loc' = [loc EXCEPT ![t] = [IdleLoc EXCEPT !.features = features,
                                                !.order = order]]
    /\ UNCHANGED <<regVars, last, call, otherVars>>

\* the check of f.closed, the copy loop and the loop over features
AddCopyAndLoop(t) ==
    /\ pc[t] = "AddCopy"
    /\ IF closed
       THEN /\ loc' = [loc EXCEPT ![t].r.err = "closed"]
            /\ pc' = [pc EXCEPT ![t] = "AddUnlock"]
            /\ known' = known
       ELSE \E r \in {addLoop(known, known, loc[t].features, loc[t].order)} :
            /\ loc' = [loc EXCEPT ![t].r.err = r.err, ![t].kn = r.known]
            /\ pc' = [pc EXCEPT ![t] = IF r.err = "nil" THEN "AddStoreKnown"
                                       ELSE "AddUnlock"]
            /\ known' = r.pub
    /\ UNCHANGED <<enabled, closed, compatibilityVersion, last, lock, call, otherVars>>

\* f.known.Store(known)
AddStoreKnown(t) ==
    /\ pc[t] = "AddStoreKnown"
    /\ known' = loc[t].kn
    /\ pc' = [pc EXCEPT ![t] = "AddUnlock"]
    /\ UNCHANGED <<enabled, closed, compatibilityVersion, last, lock, loc, call, otherVars>>

\* the deferred f.lock.Unlock(), and the return
AddUnlock(t) ==
    /\ pc[t] = "AddUnlock"
    /\ lock' = NoThread
    /\ pc' = [pc EXCEPT ![t] = "idle"]
    /\ loc' = [loc EXCEPT ![t] = IdleLoc]
    /\ last' = Call("AddVersioned", loc[t].r.err)
    /\ UNCHANGED <<regVars, call, otherVars>>

\* F1 registered, the registry open
InitWriters ==
    /\ known = [k \in Features \ {"F2"} |->
                    IF k \in DOMAIN defaultFeatures THEN defaultFeatures[k]
                    ELSE SortSpecs(AlphaThenBeta)]
    /\ enabled = EmptyMap
    /\ closed = FALSE
    /\ compatibilityVersion \in {V(1, 1), V(1, 2)}
    /\ last = Call("AddVersioned", "nil")
    /\ IdleThreads
    /\ call = NoCall
    /\ NoOthers

WriterAddArgs ==
    { [k \in {"F2"} |-> LockedAlphaThenGA],
      [k \in {"F1"} |-> AlphaThenBeta],
      [k \in {"F1"} |-> TwoAtOneVersion],
      [k \in UserFeatures |-> IF k = "F1" THEN AlphaThenBeta ELSE LockedAlphaThenGA] }
WriterAddCalls == Ranged(WriterAddArgs)

NextWriters ==
    \E t \in Threads :
        \/ \E c \in WriterAddCalls : AddLock(t, c[1], c[2])
        \/ AddCopyAndLoop(t)
        \/ AddStoreKnown(t)
        \/ AddUnlock(t)
        \/ \E c \in ThreadSetCalls : SetLock(t, c[1], c[2])
        \/ SetCopyAndLoop(t)
        \/ SetStoreKnown(t)
        \/ SetStoreEnabled(t)
        \/ SetUnlock(t)

SpecWriters == InitWriters /\ [][NextWriters]_vars

----------------------------------------------------------------------------
(* DeepCopy: a gate and its copy, each written by its owner. *)

\* the gate as a value: the fields DeepCopy reads
Original ==
    [known |-> known, enabled |-> enabled, closed |-> closed,
     compatibilityVersion |-> compatibilityVersion]

\* a copy that keeps the map of the gate it was made from
aliasedMap(pub, other, shared) == pub

\* known[k] = v copies a slice header: the slices of the features in shared
\* are the same arrays in both gates, so what a sort.Sort of one gate leaves in
\* them (pub) is what the other gate holds; the maps themselves are distinct
aliased(pub, other, shared) ==
    [k \in DOMAIN other |-> IF k \in shared /\ k \in DOMAIN pub THEN pub[k] ELSE other[k]]

\* the call fn made on the original or on the copy
CallOn(fn, on) == [fn |-> fn, on |-> on]

DeepCopy ==
    /\ copy' = [made |-> TRUE, known |-> known, enabled |-> enabled, closed |-> closed,
                compatibilityVersion |-> compatibilityVersion, shared |-> DOMAIN known]
    /\ last' = Call("DeepCopy", "nil")
    /\ call' = CallOn("DeepCopy", "original")
    /\ UNCHANGED <<regVars, concVars, configVars, evaluatorVars, effectiveVars>>

\* a call on one of the two gates leaves x in it, and returns err
Leaves(on, fn, x, err) ==
    /\ last' = Call(fn, err)
    /\ call' = CallOn(fn, on)
    /\ IF on = "original"
       THEN /\ known' = x.known
            /\ enabled' = x.enabled
            /\ closed' = x.closed
            /\ compatibilityVersion' = x.compatibilityVersion
            /\ copy' = [copy EXCEPT !.known = aliased(x.known, @, copy.shared)]
       ELSE /\ copy' = [copy EXCEPT !.known = x.known, !.enabled = x.enabled,
                                    !.closed = x.closed,
                                    !.compatibilityVersion = x.compatibilityVersion]
            /\ known' = aliased(x.known, known, copy.shared)
            /\ UNCHANGED <<enabled, closed, compatibilityVersion>>
    /\ UNCHANGED <<concVars, configVars, evaluatorVars, effectiveVars>>

\* the gates there are to call
Gates == IF copy.made THEN {"original", "copy"} ELSE {"original"}
Gate(on) == IF on = "original" THEN Original ELSE copy

SetFromMapOn(on, m, order) ==
    \E x \in {Gate(on)} :
    \E r \in {setFromMapResult(x.known, x.enabled, x.compatibilityVersion, m, order)} :
        Leaves(on, "SetFromMap", [x EXCEPT !.known = r.known, !.enabled = r.enabled], r.err)

AddVersionedOn(on, op, features, order) ==
    \E x \in {Gate(on)} :
    \E r \in {addVersionedResult(x.known, x.closed, features, order)} :
        Leaves(on, op, [x EXCEPT !.known = r.known], r.err)

SetCompatibilityVersionOn(on, v) ==
    Leaves(on, "SetCompatibilityVersion", [Gate(on) EXCEPT !.compatibilityVersion = v], "nil")

CopySetArgs ==
    { [k \in {"F1"} |-> FALSE], [k \in {allAlphaGate} |-> TRUE],
      [k \in {"F2"} |-> TRUE] }
CopySetCalls == Ranged(CopySetArgs)
CopyAddVersionedCalls ==
    Ranged({ [k \in {"F2"} |-> LockedAlphaThenGA], [k \in {"F1"} |-> AlphaThenBeta] })
CopyAddCalls == Ranged({ [k \in {"F2"} |-> FeatureSpec(TRUE, FALSE, Alpha, ZeroVersion)] })

\* F1 registered with its versions given newest first
InitDeepCopy ==
    /\ known = [k \in Features \ {"F2"} |->
                    IF k \in DOMAIN defaultFeatures THEN defaultFeatures[k]
                    ELSE SortSpecs(AlphaThenBeta)]
    /\ enabled = EmptyMap
    /\ closed = FALSE
    /\ compatibilityVersion = binaryVersion
    /\ last = Call("AddVersioned", "nil")
    /\ IdleThreads
    /\ call = CallOn("AddVersioned", "original")
    /\ NoOthers

NextDeepCopy ==
    \/ DeepCopy
    \/ \E on \in Gates, c \in CopySetCalls : SetFromMapOn(on, c[1], c[2])
    \/ \E on \in Gates, c \in CopyAddVersionedCalls :
          AddVersionedOn(on, "AddVersioned", c[1], c[2])
    \/ \E on \in Gates, c \in CopyAddCalls : AddVersionedOn(on, "Add", stamp(c[1]), c[2])
    \/ \E on \in Gates, v \in {V(1, 1), V(1, 2)} : SetCompatibilityVersionOn(on, v)

SpecDeepCopy == InitDeepCopy /\ [][NextDeepCopy]_vars

----------------------------------------------------------------------------
(* Queries: KnownFeatures, StabilityLevel and Enabled on a registry. *)

\* the bytes of the strings that are formatted and compared
Bytes(s) ==
    CASE s = "AllAlpha" -> <<65, 108, 108, 65, 108, 112, 104, 97>>
      [] s = "AllBeta" -> <<65, 108, 108, 66, 101, 116, 97>>
      [] s = "F1" -> <<70, 49>>
      [] s = "F2" -> <<70, 50>>
      [] s = "PRE-ALPHA" -> <<80, 82, 69, 45, 65, 76, 80, 72, 65>>
      [] s = "ALPHA" -> <<65, 76, 80, 72, 65>>
      [] s = "BETA" -> <<66, 69, 84, 65>>
      [] s = "" -> <<>>
      [] s = "DEPRECATED" -> <<68, 69, 80, 82, 69, 67, 65, 84, 69, 68>>
      [] s = "=true|false (" -> <<61, 116, 114, 117, 101, 124, 102, 97, 108, 115, 101, 32, 40>>
      [] s = " - default=" -> <<32, 45, 32, 100, 101, 102, 97, 117, 108, 116, 61>>
      [] s = "true" -> <<116, 114, 117, 101>>
      [] s = "false" -> <<102, 97, 108, 115, 101>>
      [] s = ")" -> <<41>>
      [] s = "0.0" -> <<48, 46, 48>>
      [] s = "/" -> <<47>>
      [] s = "a" -> <<97>>
      [] s = "a/s" -> <<97, 47, 115>>
      [] s = "ab" -> <<97, 98>>
      [] s = "b" -> <<98>>

\* %d of a number
RECURSIVE decimal(_)
decimal(n) == IF n < 10 THEN <<48 + n>> ELSE decimal(n \div 10) \o <<48 + (n % 10)>>

\* fmt.Sprintf("%d.%d", Major, Minor)
formatVersion(v) == decimal(v[1]) \o <<46>> \o decimal(v[2])

\* fmt.Sprintf("%s=true|false (%s - default=%t)", k, PreRelease, Default)
formatKnown(k, spec) ==
    Bytes(k) \o Bytes("=true|false (") \o Bytes(spec.PreRelease) \o Bytes(" - default=")
             \o Bytes(IF spec.Default THEN "true" ELSE "false") \o Bytes(")")

\* a < b as Go compares strings: byte by byte, a proper prefix first
RECURSIVE stringLess(_, _)
stringLess(a, b) ==
    IF b = <<>> THEN FALSE
    ELSE IF a = <<>> THEN TRUE
    ELSE IF Head(a) # Head(b) THEN Head(a) < Head(b)
    ELSE stringLess(Tail(a), Tail(b))

\* sort.Strings
RECURSIVE insertString(_, _)
insertString(sorted, x) ==
    IF sorted = <<>> THEN <<x>>
    ELSE IF stringLess(x, Last(sorted)) THEN Append(insertString(Front(sorted), x), Last(sorted))
    ELSE Append(sorted, x)
RECURSIVE sortStrings(_)
sortStrings(l) == IF l = <<>> THEN <<>> ELSE insertString(sortStrings(Front(l)), Last(l))

\* a list that hides GA features only
hiddenIfGA(spec) == spec.PreRelease = GA

\* the features KnownFeatures leaves out
hidden(spec) == spec.PreRelease \in {GA, Deprecated, PreAlpha}

\* the loop of KnownFeatures over known, ranged in the given order
RECURSIVE knownFeaturesLoop(_, _, _)
knownFeaturesLoop(kn, cVer, order) ==
    IF order = <<>> THEN <<>>
    ELSE IF Head(order) \in {allAlphaGate, allBetaGate}
         THEN <<formatKnown(Head(order), kn[Head(order)][1])>>
                  \o knownFeaturesLoop(kn, cVer, Tail(order))
    ELSE IF hidden(getCurrentVersion(kn[Head(order)], cVer))
         THEN knownFeaturesLoop(kn, cVer, Tail(order))
    ELSE <<formatKnown(Head(order), getCurrentVersion(kn[Head(order)], cVer))>>
             \o knownFeaturesLoop(kn, cVer, Tail(order))

knownFeatures(kn, cVer, order) == sortStrings(knownFeaturesLoop(kn, cVer, order))

\* what a query returned
Returned(fn, key, ret) == [fn |-> fn, key |-> key, ret |-> ret]

KnownFeatures(order) ==
    /\ call' = Returned("KnownFeatures", "", knownFeatures(known, compatibilityVersion, order))
    /\ UNCHANGED <<regVars, last, concVars, otherVars>>

\* StabilityLevel resolving at the binary version
stabilityLevelAtBinary(kn, cVer, key) ==
    IF key \in DOMAIN kn
    THEN [stage |-> getCurrentVersion(kn[key], binaryVersion).PreRelease,
          version |-> formatVersion(getCurrentVersion(kn[key], binaryVersion).Version),
          err |-> "nil", panic |-> FALSE]
    ELSE [stage |-> PreAlpha, version |-> Bytes("0.0"), err |-> "not registered",
          panic |-> FALSE]

stabilityLevel(kn, cVer, key) ==
    IF key \in DOMAIN kn
    THEN [stage |-> getCurrentVersion(kn[key], cVer).PreRelease,
          version |-> formatVersion(getCurrentVersion(kn[key], cVer).Version),
          err |-> "nil", panic |-> FALSE]
    ELSE [stage |-> PreAlpha, version |-> Bytes("0.0"), err |-> "not registered",
          panic |-> FALSE]

StabilityLevel(key) ==
    /\ call' = Returned("StabilityLevel", key, stabilityLevel(known, compatibilityVersion, key))
    /\ UNCHANGED <<regVars, last, concVars, otherVars>>

\* a call of Enabled(key) by the one caller
EnabledQuery(key) ==
    /\ call' = Returned("Enabled", key, Enabled(key))
    /\ UNCHANGED <<regVars, last, concVars, otherVars>>

\* registered specs, as AddVersioned and Add leave them
BetaThenDeprecated ==
    <<FeatureSpec(TRUE, FALSE, Beta, V(1, 0)), FeatureSpec(FALSE, FALSE, Deprecated, V(1, 2))>>
QuerySpecs ==
    { SortSpecs(AlphaThenBeta), SortSpecs(LockedAlphaThenGA), BetaThenDeprecated,
      <<FeatureSpec(TRUE, FALSE, Alpha, binaryVersion)>> }

\* a registry with some of F1 and F2 registered, and an override or none
InitQueries ==
    /\ known \in {[k \in DOMAIN m \cup DOMAIN defaultFeatures |->
                      IF k \in DOMAIN m THEN m[k] ELSE defaultFeatures[k]] :
                  m \in Maps(UserFeatures, QuerySpecs)}
    /\ enabled \in {EmptyMap} \cup {[k \in {f} |-> TRUE] : f \in DOMAIN known}
    /\ closed = TRUE
    /\ compatibilityVersion \in CompatVersions
    /\ last = Call("AddFlag", "nil")
    /\ IdleThreads
    /\ call = Returned("none", "", <<>>)
    /\ NoOthers

NextQueries ==
    \/ \E order \in Orders(DOMAIN known) : KnownFeatures(order)
    \/ \E key \in Features : StabilityLevel(key)
    \/ \E key \in Features : EnabledQuery(key)

SpecQueries == InitQueries /\ [][NextQueries]_vars

----------------------------------------------------------------------------
(* ResourceConfig: group versions and resources switched on and off. *)

GroupVersions == {"g/v1", "g/v2"}
GVR(gv, resource) == [GroupVersion |-> gv, Resource |-> resource]
Resources == {GVR("g/v1", "a"), GVR("g/v1", "b"), GVR("g/v2", "a")}

\* what a registry answers for a group version or a resource
Lifecycle(introduced, removed) ==
    [VersionIntroduced |-> introduced, VersionRemoved |-> removed]

\* a registry: g/v1 is served from 1.0 to 1.1 and g/v2 from 1.2 on; where
\* resources have lifecycles of their own, g/v1 b is gone after 1.0 and
\* g/v2 a is there from 1.1
SomeRegistry ==
    [isNil |-> FALSE,
     groupVersions |-> [gv \in GroupVersions |->
                           IF gv = "g/v1" THEN Lifecycle(V(1, 0), V(1, 1))
                           ELSE Lifecycle(V(1, 2), V(2, 0))],
     resources |-> [r \in Resources |->
                       IF r = GVR("g/v1", "a") THEN Lifecycle(V(1, 0), V(1, 1))
                       ELSE IF r = GVR("g/v1", "b") THEN Lifecycle(V(1, 0), V(1, 0))
                       ELSE Lifecycle(V(1, 1), V(2, 0))]]

\* version.MustParseVersion of the strings a caller passes
parseVersion(str) ==
    CASE str = "0.0" -> V(0, 0)
      [] str = "0.1" -> V(0, 1)
      [] str = "1.1" -> V(1, 1)
      [] str = "1.2" -> V(1, 2)

\* NewResourceConfig; perResource tells the registry that answers
\* ResourceLifecycle from the one that answers for group versions only
NewResourceConfig(compatVersion, registry, perResource) ==
    [compatibilityVersion |-> IF compatVersion = "" THEN binaryVersion
                              ELSE parseVersion(compatVersion),
     registry |-> registry, perResource |-> perResource]

\* the two maps of a ResourceConfig
Maps2(gvc, rc) == [GroupVersionConfigs |-> gvc, ResourceConfigs |-> rc]
Config == Maps2(GroupVersionConfigs, ResourceConfigs)

\* the lifecycle check of versionAvailable and resourceAvailable
available(cfg, lifecycle) ==
    IF cfg.registry.isNil THEN TRUE
    ELSE IF cfg.compatibilityVersion[1] = 0 /\ cfg.compatibilityVersion[2] = 0 THEN TRUE
    ELSE IF VersionLT(cfg.compatibilityVersion, lifecycle.VersionIntroduced) THEN FALSE
    ELSE IF VersionGT(cfg.compatibilityVersion, lifecycle.VersionRemoved) THEN FALSE
    ELSE TRUE

versionAvailable(cfg, gv) ==
    cfg.registry.isNil \/ available(cfg, cfg.registry.groupVersions[gv])

resourceAvailable(cfg, r) ==
    IF cfg.perResource
    THEN cfg.registry.isNil \/ available(cfg, cfg.registry.resources[r])
    ELSE versionAvailable(cfg, r.GroupVersion)

resourceMatcherForVersion(gv, gvr) == gv = gvr.GroupVersion

\* a version-level call that leaves the overrides alone
removeNoResourcePreferences(rc, gv) == rc

\* removeMatchingResourcePreferences(resourceMatcherForVersion(gv))
removeMatchingResourcePreferences(rc, gv) ==
    [k \in {x \in DOMAIN rc : ~resourceMatcherForVersion(gv, x)} |-> rc[k]]

versionEnabled(c, gv) ==
    IF gv \in DOMAIN c.GroupVersionConfigs THEN c.GroupVersionConfigs[gv] ELSE FALSE

RECURSIVE disableVersions(_, _)
disableVersions(c, versions) ==
    IF versions = <<>> THEN c
    ELSE disableVersions(
            Maps2(MapPut(c.GroupVersionConfigs, Head(versions), FALSE),
                  removeMatchingResourcePreferences(c.ResourceConfigs, Head(versions))),
            Tail(versions))

RECURSIVE enableVersions(_, _, _)
enableVersions(cfg, c, versions) ==
    IF versions = <<>> THEN c
    ELSE enableVersions(cfg,
            Maps2(MapPut(c.GroupVersionConfigs, Head(versions),
                         versionAvailable(cfg, Head(versions))),
                  removeMatchingResourcePreferences(c.ResourceConfigs, Head(versions))),
            Tail(versions))

\* the range over GroupVersionConfigs, in the given order; matcher is the set
\* of group versions for which the matcher function returns true
RECURSIVE disableMatchingVersions(_, _, _)
disableMatchingVersions(c, matcher, order) ==
    IF order = <<>> THEN c
    ELSE IF Head(order) \in matcher
         THEN disableMatchingVersions(
                 Maps2(MapPut(c.GroupVersionConfigs, Head(order), FALSE),
                       removeMatchingResourcePreferences(c.ResourceConfigs, Head(order))),
                 matcher, Tail(order))
    ELSE disableMatchingVersions(c, matcher, Tail(order))

RECURSIVE enableMatchingVersions(_, _, _, _)
enableMatchingVersions(cfg, c, matcher, order) ==
    IF order = <<>> THEN c
    ELSE IF Head(order) \in matcher /\ versionAvailable(cfg, Head(order))
         THEN enableMatchingVersions(cfg,
                 Maps2(MapPut(c.GroupVersionConfigs, Head(order), TRUE),
                       removeMatchingResourcePreferences(c.ResourceConfigs, Head(order))),
                 matcher, Tail(order))
    ELSE enableMatchingVersions(cfg, c, matcher, Tail(order))

RECURSIVE disableResources(_, _)
disableResources(c, resources) ==
    IF resources = <<>> THEN c
    ELSE disableResources(
            Maps2(c.GroupVersionConfigs, MapPut(c.ResourceConfigs, Head(resources), FALSE)),
            Tail(resources))

\* an EnableResources that asks no registry
RECURSIVE enableResourcesUnchecked(_, _, _)
enableResourcesUnchecked(cfg, c, resources) ==
    IF resources = <<>> THEN c
    ELSE enableResourcesUnchecked(cfg,
            Maps2(c.GroupVersionConfigs, MapPut(c.ResourceConfigs, Head(resources), TRUE)),
            Tail(resources))

\* a resource that fails the check gets the entry false where resources have
\* lifecycles of their own, and no entry where they have not
RECURSIVE enableResources(_, _, _)
enableResources(cfg, c, resources) ==
    IF resources = <<>> THEN c
    ELSE enableResources(cfg,
            IF resourceAvailable(cfg, Head(resources))
            THEN Maps2(c.GroupVersionConfigs, MapPut(c.ResourceConfigs, Head(resources), TRUE))
            ELSE IF cfg.perResource
                 THEN Maps2(c.GroupVersionConfigs,
                            MapPut(c.ResourceConfigs, Head(resources), FALSE))
                 ELSE c,
            Tail(resources))

\* a ResourceEnabled that asks the version before the resource
resourceEnabledVersionFirst(cfg, c, r) ==
    IF ~versionEnabled(c, r.GroupVersion) THEN FALSE
    ELSE IF r \in DOMAIN c.ResourceConfigs THEN c.ResourceConfigs[r]
    ELSE TRUE

resourceEnabled(cfg, c, r) ==
    IF r \in DOMAIN c.ResourceConfigs THEN c.ResourceConfigs[r]
    ELSE IF cfg.perResource /\ ~resourceAvailable(cfg, r) THEN FALSE
    ELSE IF ~versionEnabled(c, r.GroupVersion) THEN FALSE
    ELSE TRUE

ResourceEnabled(r) == resourceEnabled(resourceConfig, Config, r)

\* a call on the ResourceConfig leaves c in its maps
Configured(op, c) ==
    /\ GroupVersionConfigs' = c.GroupVersionConfigs
    /\ ResourceConfigs' = c.ResourceConfigs
    /\ last' = Call(op, "nil")
    /\ UNCHANGED <<regVars, concVars, call, copyVars, resourceConfig, evaluatorVars, effectiveVars>>

DisableVersions(versions) == Configured("DisableVersions", disableVersions(Config, versions))
EnableVersions(versions) ==
    Configured("EnableVersions", enableVersions(resourceConfig, Config, versions))
DisableMatchingVersions(matcher, order) ==
    Configured("DisableMatchingVersions", disableMatchingVersions(Config, matcher, order))
EnableMatchingVersions(matcher, order) ==
    Configured("EnableMatchingVersions",
               enableMatchingVersions(resourceConfig, Config, matcher, order))
DisableResources(resources) ==
    Configured("DisableResources", disableResources(Config, resources))
EnableResources(resources) ==
    Configured("EnableResources", enableResources(resourceConfig, Config, resources))

\* the arguments of the variadic calls, and the matchers
Lists(S) == UNION {[1..n -> S] : n \in 0..MaxArgs}
Matchers == SUBSET GroupVersions

InitResourceConfig ==
    /\ InitRegistry
    /\ last = Call("NewResourceConfig", "nil")
    /\ IdleThreads
    /\ call = NoCall
    /\ copy = NoCopy
    /\ NoStorage
    /\ effective = NoEffective
    /\ GroupVersionConfigs = EmptyMap
    /\ ResourceConfigs = EmptyMap
    /\ resourceConfig \in
          {NewResourceConfig("", NoRegistry, per) : per \in BOOLEAN}
             \cup {NewResourceConfig(v, SomeRegistry, per) :
                      v \in {"", "0.0", "1.1"}, per \in BOOLEAN}

NextResourceConfig ==
    \/ \E versions \in Lists(GroupVersions) : DisableVersions(versions)
    \/ \E versions \in Lists(GroupVersions) : EnableVersions(versions)
    \/ \E matcher \in Matchers, order \in Orders(DOMAIN GroupVersionConfigs) :
          DisableMatchingVersions(matcher, order)
    \/ \E matcher \in Matchers, order \in Orders(DOMAIN GroupVersionConfigs) :
          EnableMatchingVersions(matcher, order)
    \/ \E resources \in Lists(Resources) : DisableResources(resources)
    \/ \E resources \in Lists(Resources) : EnableResources(resources)

SpecResourceConfig == InitResourceConfig /\ [][NextResourceConfig]_vars

----------------------------------------------------------------------------
(* ResourceConfig over two API groups: AnyResourceForGroupEnabled. *)

\* schema.GroupVersion.Group of the group versions in use
Group(gv) ==
    CASE gv = "g/v1" -> "g"
      [] gv = "g/v2" -> "g"
      [] gv = "h/v1" -> "h"
Groups == {"g", "h", "k"}
GroupedVersions == {"g/v1", "h/v1"}
GroupedResources == {GVR("g/v1", "a"), GVR("h/v1", "a")}

\* a registry under which, at 1.1, g/v1 is served and h/v1 is not yet
GroupedRegistry ==
    [isNil |-> FALSE,
     groupVersions |-> [gv \in GroupedVersions |->
                           IF gv = "g/v1" THEN Lifecycle(V(1, 0), V(2, 0))
                           ELSE Lifecycle(V(1, 2), V(2, 0))],
     resources |-> [r \in GroupedResources |->
                       IF r = GVR("g/v1", "a") THEN Lifecycle(V(1, 0), V(2, 0))
                       ELSE Lifecycle(V(1, 2), V(2, 0))]]

\* the first loop alone
anyVersionForGroupEnabled(cfg, c, group, versions, resources) ==
    \E i \in 1..Len(versions) : Group(versions[i]) = group /\ versionEnabled(c, versions[i])

\* the loop over GroupVersionConfigs, then the loop over ResourceConfigs, each
\* in the order the map's range takes, returning at the first hit
RECURSIVE anyResourceForGroupEnabled(_, _, _, _, _)
anyResourceForGroupEnabled(cfg, c, group, versions, resources) ==
    IF versions # <<>>
    THEN IF Group(Head(versions)) = group /\ versionEnabled(c, Head(versions)) THEN TRUE
         ELSE anyResourceForGroupEnabled(cfg, c, group, Tail(versions), resources)
    ELSE IF resources # <<>>
    THEN IF Group(Head(resources).GroupVersion) = group
              /\ resourceEnabled(cfg, c, Head(resources))
         THEN TRUE
         ELSE anyResourceForGroupEnabled(cfg, c, group, versions, Tail(resources))
    ELSE FALSE

AnyResourceForGroupEnabled(group, versions, resources) ==
    /\ call' = [fn |-> "AnyResourceForGroupEnabled", group |-> group,
                ret |-> anyResourceForGroupEnabled(resourceConfig, Config, group,
                                                   versions, resources)]
    /\ last' = Call("AnyResourceForGroupEnabled", "nil")
    /\ UNCHANGED <<regVars, concVars, copyVars, configVars, evaluatorVars, effectiveVars>>

InitGroups ==
    /\ InitRegistry
    /\ last = Call("NewResourceConfig", "nil")
    /\ IdleThreads
    /\ call = NoCall
    /\ copy = NoCopy
    /\ NoStorage
    /\ effective = NoEffective
    /\ GroupVersionConfigs = EmptyMap
    /\ ResourceConfigs = EmptyMap
    /\ resourceConfig \in
          {NewResourceConfig("", NoRegistry, FALSE)}
             \cup {NewResourceConfig("1.1", GroupedRegistry, per) : per \in BOOLEAN}

NextGroups ==
    \/ \E versions \in Lists(GroupedVersions) : DisableVersions(versions)
    \/ \E versions \in Lists(GroupedVersions) : EnableVersions(versions)
    \/ \E matcher \in SUBSET GroupedVersions, order \in Orders(DOMAIN GroupVersionConfigs) :
          DisableMatchingVersions(matcher, order)
    \/ \E matcher \in SUBSET GroupedVersions, order \in Orders(DOMAIN GroupVersionConfigs) :
          EnableMatchingVersions(matcher, order)
    \/ \E resources \in Lists(GroupedResources) : DisableResources(resources)
    \/ \E resources \in Lists(GroupedResources) : EnableResources(resources)
    \/ \E group \in Groups, versions \in Orders(DOMAIN GroupVersionConfigs),
          resources \in Orders(DOMAIN ResourceConfigs) :
          AnyResourceForGroupEnabled(group, versions, resources)

SpecGroups == InitGroups /\ [][NextGroups]_vars

----------------------------------------------------------------------------
(* The evaluator of deleted kinds: which storage is still served. *)

\* NewResourceExpirationEvaluator: the parsed git version, whether it holds
\* "alpha", and the two environment settings
NewResourceExpirationEvaluator(ver, alpha, strict, oneMore) ==
    [compatibilityVersion |-> ver, isAlpha |-> alpha,
     strictRemovedHandlingInAlpha |-> strict, serveRemovedAPIsOneMoreRelease |-> oneMore]

Evaluators ==
    {NewResourceExpirationEvaluator(ver, alpha, strict, oneMore) :
        ver \in VersionGrid, alpha \in BOOLEAN, strict \in BOOLEAN, oneMore \in BOOLEAN}

\* a rest.Storage as the evaluator sees it: whether ConvertToVersion succeeds
\* on its New(), and what the versioned object declares; Undeclared stands
\* for an object without APILifecycleIntroduced or APILifecycleRemoved
Undeclared == <<>>
Storage(converts, introduced, removed) ==
    [converts |-> converts, introduced |-> introduced, removed |-> removed]
storageNeverRemoved == Storage(TRUE, Undeclared, Undeclared)
storageRemovedIn(major, minor) == Storage(TRUE, Undeclared, V(major, minor))
storageIntroducedIn(major, minor) == Storage(TRUE, V(major, minor), Undeclared)
Storages ==
    {Storage(converts, introduced, removed) :
        converts \in BOOLEAN,
        introduced \in VersionGrid \cup {Undeclared},
        removed \in VersionGrid \cup {Undeclared}}

isNonDefaultVersion(ver) == ver[1] > 0 \/ ver[2] > 0

\* an introduced version that blocks from the compatibility version on
shouldServeForIntroducedFrom(e, obj) ==
    IF obj.introduced = Undeclared THEN TRUE
    ELSE ~(isNonDefaultVersion(e.compatibilityVersion)
             /\ ~VersionLT(obj.introduced, e.compatibilityVersion))

shouldServeForIntroduced(e, obj) ==
    IF obj.introduced = Undeclared THEN TRUE
    ELSE IF isNonDefaultVersion(e.compatibilityVersion)
              /\ VersionGT(obj.introduced, e.compatibilityVersion)
    THEN FALSE
    ELSE TRUE

\* a ShouldServeForVersion that asks isAlpha before the strict handling
ShouldServeForVersionAlphaFirst(e, majorRemoved, minorRemoved) ==
    LET removedVersion == V(majorRemoved, minorRemoved)
    IN  IF VersionLT(e.compatibilityVersion, removedVersion) THEN TRUE
        ELSE IF VersionGT(e.compatibilityVersion, removedVersion) THEN FALSE
        ELSE IF e.isAlpha THEN TRUE
        ELSE e.serveRemovedAPIsOneMoreRelease

ShouldServeForVersion(e, majorRemoved, minorRemoved) ==
    LET removedVersion == V(majorRemoved, minorRemoved)
    IN  IF VersionLT(e.compatibilityVersion, removedVersion) THEN TRUE
        ELSE IF VersionGT(e.compatibilityVersion, removedVersion) THEN FALSE
        ELSE IF e.isAlpha /\ e.strictRemovedHandlingInAlpha THEN FALSE
        ELSE IF e.isAlpha THEN TRUE
        ELSE IF e.serveRemovedAPIsOneMoreRelease THEN TRUE
        ELSE FALSE

\* a shouldServe that goes on after a failed conversion
shouldServeUnconverted(e, resourceServingInfo) ==
    IF ~shouldServeForIntroduced(e, resourceServingInfo) THEN FALSE
    ELSE IF resourceServingInfo.removed = Undeclared THEN TRUE
    ELSE ShouldServeForVersion(e, resourceServingInfo.removed[1],
                               resourceServingInfo.removed[2])

shouldServe(e, resourceServingInfo) ==
    IF ~resourceServingInfo.converts THEN FALSE
    ELSE IF ~shouldServeForIntroduced(e, resourceServingInfo) THEN FALSE
    ELSE IF resourceServingInfo.removed = Undeclared THEN TRUE
    ELSE ShouldServeForVersion(e, resourceServingInfo.removed[1],
                               resourceServingInfo.removed[2])

\* the two calls, their arguments and result kept in call
ShouldServeForVersionCall(majorRemoved, minorRemoved) ==
    /\ call' = [fn |-> "ShouldServeForVersion",
                removed |-> V(majorRemoved, minorRemoved),
                ret |-> ShouldServeForVersion(evaluator, majorRemoved, minorRemoved)]
    /\ last' = Call("ShouldServeForVersion", "nil")
    /\ UNCHANGED <<regVars, concVars, otherVars>>

ShouldServe(resourceServingInfo) ==
    /\ call' = [fn |-> "shouldServe", resourceServingInfo |-> resourceServingInfo,
                ret |-> shouldServe(evaluator, resourceServingInfo)]
    /\ last' = Call("shouldServe", "nil")
    /\ UNCHANGED <<regVars, concVars, otherVars>>

InitEvaluator ==
    /\ InitRegistry
    /\ last = Call("NewResourceExpirationEvaluator", "nil")
    /\ IdleThreads
    /\ call = NoCall
    /\ copy = NoCopy
    /\ GroupVersionConfigs = EmptyMap
    /\ ResourceConfigs = EmptyMap
    /\ resourceConfig = [compatibilityVersion |-> ZeroVersion, registry |-> NoRegistry,
                         perResource |-> FALSE]
    /\ evaluator \in Evaluators
    /\ versionedResourcesStorageMap = EmptyMap
    /\ effective = NoEffective

NextEvaluator ==
    \/ \E v \in VersionGrid : ShouldServeForVersionCall(v[1], v[2])
    \/ \E resourceServingInfo \in Storages : ShouldServe(resourceServingInfo)

SpecEvaluator == InitEvaluator /\ [][NextEvaluator]_vars

----------------------------------------------------------------------------
(* RemoveDeletedKinds: the storage map pruned in place. *)

\* strings.HasPrefix: a starts with the bytes of p
HasPrefix(a, p) == Len(a) >= Len(p) /\ SubSeq(a, 1, Len(p)) = p

\* a match on the name itself only
shouldRemoveResource(resourcesToRemove, resourceName) ==
    \E resourceToRemove \in resourcesToRemove : resourceName = resourceToRemove

shouldRemoveResourceAndSubresources(resourcesToRemove, resourceName) ==
    \E resourceToRemove \in resourcesToRemove :
        \/ resourceName = resourceToRemove
        \/ HasPrefix(Bytes(resourceName), Bytes(resourceToRemove) \o Bytes("/"))

\* the first loop over a version: the names shouldServe turns down
resourcesToRemove(e, versionToResource) ==
    {resourceName \in DOMAIN versionToResource :
        ~shouldServe(e, versionToResource[resourceName])}

\* a second loop that takes every name that starts with a name turned down
removeResourcesByPrefix(e, versionToResource) ==
    LET kept == {resourceName \in DOMAIN versionToResource :
                    \A resourceToRemove \in resourcesToRemove(e, versionToResource) :
                        ~HasPrefix(Bytes(resourceName), Bytes(resourceToRemove))}
    IN  [resourceName \in kept |-> versionToResource[resourceName]]

\* the second loop: delete(versionToResource, resourceName) for every match
removeResources(e, versionToResource) ==
    LET kept == {resourceName \in DOMAIN versionToResource :
                    ~shouldRemoveResourceAndSubresources(
                        resourcesToRemove(e, versionToResource), resourceName)}
    IN  [resourceName \in kept |-> versionToResource[resourceName]]

\* no version removed for being empty
versionsToKeep(storageMap) == {}

\* the versions with len(versionedResourcesStorageMap[apiVersion]) == 0
versionsToRemove(storageMap) ==
    {apiVersion \in DOMAIN storageMap : Cardinality(DOMAIN storageMap[apiVersion]) = 0}

\* a call that removes the versions that were empty when it began
removeDeletedKindsEmptyOnEntry(e, storageMap) ==
    LET pruned == [apiVersion \in DOMAIN storageMap |->
                      removeResources(e, storageMap[apiVersion])]
    IN  [apiVersion \in (DOMAIN pruned) \ versionsToRemove(storageMap) |-> pruned[apiVersion]]

removeDeletedKinds(e, storageMap) ==
    LET pruned == [apiVersion \in DOMAIN storageMap |->
                      removeResources(e, storageMap[apiVersion])]
    IN  [apiVersion \in (DOMAIN pruned) \ versionsToRemove(pruned) |-> pruned[apiVersion]]

\* the call keeps the map it was given, for comparison with what it leaves
RemoveDeletedKinds ==
    /\ versionedResourcesStorageMap' =
           removeDeletedKinds(evaluator, versionedResourcesStorageMap)
    /\ call' = [fn |-> "RemoveDeletedKinds", given |-> versionedResourcesStorageMap]
    /\ last' = Call("RemoveDeletedKinds", "nil")
    /\ UNCHANGED <<regVars, concVars, copyVars, configVars, evaluator, effectiveVars>>

\* evaluators before and at 1.1, and storage that is kept, removed in 1.1,
\* removed in 1.2, introduced in 1.2, or fails to convert
StartupEvaluators ==
    {NewResourceExpirationEvaluator(ver, alpha, strict, oneMore) :
        ver \in {V(0, 0), V(1, 1)}, alpha \in BOOLEAN, strict \in BOOLEAN,
        oneMore \in BOOLEAN}
StartupStorages ==
    {storageNeverRemoved, storageRemovedIn(1, 1), storageRemovedIn(1, 2),
     storageIntroducedIn(1, 2), Storage(FALSE, Undeclared, Undeclared)}
ResourceNames == {"a", "a/s", "ab"}
StorageMaps ==
    {[apiVersion \in {"v1"} \cup D |->
         IF apiVersion = "v1" THEN first ELSE second] :
        first \in Maps(ResourceNames, StartupStorages),
        second \in Maps({"b"}, {storageNeverRemoved, storageRemovedIn(1, 1)}),
        D \in SUBSET {"v2"}}

InitRemoveDeletedKinds ==
    /\ InitRegistry
    /\ last = Call("NewResourceExpirationEvaluator", "nil")
    /\ IdleThreads
    /\ call = NoCall
    /\ copy = NoCopy
    /\ GroupVersionConfigs = EmptyMap
    /\ ResourceConfigs = EmptyMap
    /\ resourceConfig = [compatibilityVersion |-> ZeroVersion, registry |-> NoRegistry,
                         perResource |-> FALSE]
    /\ evaluator \in StartupEvaluators
    /\ versionedResourcesStorageMap \in StorageMaps
    /\ effective = NoEffective

SpecRemoveDeletedKinds == InitRemoveDeletedKinds /\ [][RemoveDeletedKinds]_vars

----------------------------------------------------------------------------
(* Calls in flight: a thread that has made a call and waits in f.lock.Lock() *)
(* until the mutex is free; the readers take no lock.                        *)

\* a call is made: the thread stands at the first access of the operation
Invoke(t, at, args) ==
    /\ pc[t] = "idle"
    /\ pc' = [pc EXCEPT ![t] = at]
    /\ loc' = [loc EXCEPT ![t] = args]
    /\ UNCHANGED <<regVars, last, lock, call, otherVars>>

\* where f.lock.Lock() is the first statement, and what follows it
AfterLock ==
    [at \in {"SetLock", "AddLock", "CompatLock", "FlagLock"} |->
        CASE at = "SetLock" -> "SetCopy"
          [] at = "AddLock" -> "AddCopy"
          [] at = "CompatLock" -> "CompatStore"
          [] at = "FlagLock" -> "FlagClose"]

\* f.lock.Lock() returns
Acquire(t) ==
    /\ pc[t] \in DOMAIN AfterLock
    /\ lockFree(lock)
    /\ lock' = t
    /\ pc' = [pc EXCEPT ![t] = AfterLock[pc[t]]]
    /\ loc' = [loc EXCEPT ![t].before = IF pc[t] = "SetLock" THEN enabled ELSE @]
    /\ UNCHANGED <<regVars, last, call, otherVars>>

\* Set(value) with a pair that lacks its value, or a value that is no bool
SetInvalid(t) ==
    /\ pc[t] = "idle"
    /\ last' = Call("Set", "invalid")
    /\ UNCHANGED <<regVars, concVars, call, otherVars>>

\* f.compatibilityVersion = version.MustParseVersion(v), which panics on "x"
CompatStore(t) ==
    /\ pc[t] = "CompatStore"
    /\ IF loc[t].v = "x"
       THEN /\ loc' = [loc EXCEPT ![t].r.err = "panic"]
            /\ compatibilityVersion' = compatibilityVersion
       ELSE /\ loc' = loc
            /\ compatibilityVersion' = parseVersion(loc[t].v)
    /\ pc' = [pc EXCEPT ![t] = "CompatUnlock"]
    /\ UNCHANGED <<known, enabled, closed, last, lock, call, otherVars>>

\* the deferred f.lock.Unlock(), and the return or the panic going up
CompatUnlock(t) ==
    /\ pc[t] = "CompatUnlock"
    /\ lock' = NoThread
    /\ pc' = [pc EXCEPT ![t] = "idle"]
    /\ loc' = [loc EXCEPT ![t] = IdleLoc]
    /\ last' = Call("SetCompatibilityVersion", loc[t].r.err)
    /\ UNCHANGED <<regVars, call, otherVars>>

\* f.closed = true
FlagClose(t) ==
    /\ pc[t] = "FlagClose"
    /\ closed' = TRUE
    /\ pc' = [pc EXCEPT ![t] = "FlagUnlock"]
    /\ UNCHANGED <<known, enabled, compatibilityVersion, last, lock, loc, call, otherVars>>

\* f.lock.Unlock(), before KnownFeatures and fs.Var
FlagUnlock(t) ==
    /\ pc[t] = "FlagUnlock"
    /\ lock' = NoThread
    /\ pc' = [pc EXCEPT ![t] = "FlagKnownFeatures"]
    /\ UNCHANGED <<regVars, last, loc, call, otherVars>>

\* f.KnownFeatures() and fs.Var, and the return
FlagKnownFeatures(t) ==
    /\ pc[t] = "FlagKnownFeatures"
    /\ pc' = [pc EXCEPT ![t] = "idle"]
    /\ loc' = [loc EXCEPT ![t] = IdleLoc]
    /\ last' = Call("AddFlag", "nil")
    /\ UNCHANGED <<regVars, lock, call, otherVars>>

\* KnownFeatures, GetAll, GetAllVersioned, DeepCopy: f.known.Load()
Readers == {"KnownFeatures", "GetAll", "GetAllVersioned", "DeepCopy"}
ReadLoadKnown(t) ==
    /\ pc[t] = "ReadLoadKnown"
    /\ loc' = [loc EXCEPT ![t].kn = known]
    /\ pc' = [pc EXCEPT ![t] = IF loc[t].fn = "DeepCopy" THEN "ReadLoadEnabled"
                                ELSE "ReadReturn"]
    /\ UNCHANGED <<regVars, last, lock, call, otherVars>>

\* DeepCopy: f.enabled.Load()
ReadLoadEnabled(t) ==
    /\ pc[t] = "ReadLoadEnabled"
    /\ loc' = [loc EXCEPT ![t].before = enabled]
    /\ pc' = [pc EXCEPT ![t] = "ReadReturn"]
    /\ UNCHANGED <<regVars, last, lock, call, otherVars>>

ReadReturn(t) ==
    /\ pc[t] = "ReadReturn"
    /\ pc' = [pc EXCEPT ![t] = "idle"]
    /\ loc' = [loc EXCEPT ![t] = IdleLoc]
    /\ last' = Call(loc[t].fn, "nil")
    /\ UNCHANGED <<regVars, lock, call, otherVars>>

\* the calls made: some succeed, some return an error, one panics
LiveSetArgs == {[k \in {"F2"} |-> TRUE]}
LiveAddVersionedArgs == {[k \in {"F2"} |-> LockedAlphaThenGA]}
LiveCompatArgs == {"1.2", "x"}

\* a step of a call in flight other than f.lock.Lock()
Proceed(t) ==
    \/ SetCopyAndLoop(t)
    \/ SetStoreKnown(t)
    \/ SetStoreEnabled(t)
    \/ SetUnlock(t)
    \/ AddCopyAndLoop(t)
    \/ AddStoreKnown(t)
    \/ AddUnlock(t)
    \/ CompatStore(t)
    \/ CompatUnlock(t)
    \/ FlagClose(t)
    \/ FlagUnlock(t)
    \/ FlagKnownFeatures(t)
    \/ EnabledLoadEnabled(t)
    \/ EnabledLoadKnown(t)
    \/ EnabledReturn(t)
    \/ ReadLoadKnown(t)
    \/ ReadLoadEnabled(t)
    \/ ReadReturn(t)

InitLive ==
    /\ InitWriters
    /\ compatibilityVersion = binaryVersion

NextLive ==
    \E t \in Threads :
        \/ \E c \in Ranged(LiveSetArgs) :
              Invoke(t, "SetLock", [IdleLoc EXCEPT !.m = c[1], !.order = c[2]])
        \/ SetInvalid(t)
        \/ \E c \in Ranged(LiveAddVersionedArgs) :
              Invoke(t, "AddLock", [IdleLoc EXCEPT !.features = c[1], !.order = c[2]])
        \/ \E c \in AddCalls :
              Invoke(t, "AddLock", [IdleLoc EXCEPT !.features = stamp(c[1]), !.order = c[2]])
        \/ \E v \in LiveCompatArgs : Invoke(t, "CompatLock", [IdleLoc EXCEPT !.v = v])
        \/ Invoke(t, "FlagLock", IdleLoc)
        \/ EnabledCall(t, "F1")
        \/ \E fn \in Readers : Invoke(t, "ReadLoadKnown", [IdleLoc EXCEPT !.fn = fn])
        \/ Acquire(t)
        \/ Proceed(t)

\* a thread in a call keeps running, and sync.Mutex hands the lock to a
\* thread that waits for it: no waiter is passed over for ever
Fairness ==
    \A t \in Threads : WF_vars(Proceed(t)) /\ SF_vars(Acquire(t))

SpecLive == InitLive /\ [][NextLive]_vars /\ Fairness

----------------------------------------------------------------------------
(* f.compatibilityVersion is a plain field of type semver.Version, a struct  *)
(* of several words: SetCompatibilityVersion assigns it under the mutex, and *)
(* the readers copy it with no lock and no atomic load. The assignment is    *)
(* taken one field at a time, in either order, as it may be compiled.        *)

\* the fields of semver.Version that tell versions apart here: Major, Minor
VersionFields == {1, 2}

\* f.compatibilityVersion = version.MustParseVersion(v): the first field stored
CompatStoreFirst(t) ==
    /\ pc[t] = "CompatStore"
    /\ \E field \in VersionFields :
          /\ compatibilityVersion' =
                [compatibilityVersion EXCEPT ![field] = parseVersion(loc[t].v)[field]]
          /\ loc' = [loc EXCEPT ![t].seen = {field}]
    /\ pc' = [pc EXCEPT ![t] = "CompatStoreRest"]
    /\ UNCHANGED <<known, enabled, closed, last, lock, call, otherVars>>

\* the rest of the assignment
CompatStoreRest(t) ==
    /\ pc[t] = "CompatStoreRest"
    /\ compatibilityVersion' = parseVersion(loc[t].v)
    /\ pc' = [pc EXCEPT ![t] = "CompatUnlock"]
    /\ UNCHANGED <<known, enabled, closed, last, lock, loc, call, otherVars>>

\* StabilityLevel(key): f.known.Load()[key], then f.getCurrentVersion(v)
LevelLoadKnown(t) ==
    /\ pc[t] = "LevelLoadKnown"
    /\ loc' = [loc EXCEPT ![t].cVer =
                  IF loc[t].key \in DOMAIN known THEN compatibilityVersion ELSE @]
    /\ pc' = [pc EXCEPT ![t] = "ReadReturn"]
    /\ UNCHANGED <<regVars, last, lock, call, otherVars>>

\* GetCompatibilityVersion, and the field copy of DeepCopy: return f.compatibilityVersion
CompatLoad(t) ==
    /\ pc[t] = "CompatLoad"
    /\ loc' = [loc EXCEPT ![t].cVer = compatibilityVersion]
    /\ pc' = [pc EXCEPT ![t] = "ReadReturn"]
    /\ UNCHANGED <<regVars, last, lock, call, otherVars>>

\* the versions given to SetCompatibilityVersion while the readers run
EmulatedArgs == {"0.1", "1.2"}

InitEmulated ==
    /\ InitThreads
    /\ compatibilityVersion = binaryVersion

NextEmulated ==
    \E t \in Threads :
        \/ \E v \in EmulatedArgs : Invoke(t, "CompatLock", [IdleLoc EXCEPT !.v = v])
        \/ Acquire(t)
        \/ CompatStoreFirst(t)
        \/ CompatStoreRest(t)
        \/ CompatUnlock(t)
        \/ \E key \in UserFeatures : EnabledCall(t, key)
        \/ EnabledLoadEnabled(t)
        \/ EnabledLoadKnown(t)
        \/ EnabledReturn(t)
        \/ \E key \in UserFeatures :
              Invoke(t, "LevelLoadKnown", [IdleLoc EXCEPT !.key = key, !.fn = "StabilityLevel"])
        \/ LevelLoadKnown(t)
        \/ \E fn \in {"GetCompatibilityVersion", "DeepCopy"} :
              Invoke(t, "CompatLoad", [IdleLoc EXCEPT !.fn = fn])
        \/ CompatLoad(t)
        \/ ReadReturn(t)

SpecEmulated == InitEmulated /\ [][NextEmulated]_vars

----------------------------------------------------------------------------
(* Set(value): the string split into pairs, then SetFromMap. A string is a   *)
(* sequence of separators and words, a word being a run of other bytes.      *)

Separators == {",", "=", " "}
Words == {"F1", "true", "false"}
SetValues ==
    {value \in UNION {[1..n -> Separators \cup Words] : n \in 0..MaxChars} :
        \A i \in 1..(Len(value) - 1) : ~(value[i] \in Words /\ value[i + 1] \in Words)}

\* strings.Index of a separator, from 1, or 0
Index(str, sep) ==
    IF \E i \in 1..Len(str) : str[i] = sep
    THEN CHOOSE i \in 1..Len(str) : str[i] = sep /\ \A j \in 1..(i - 1) : str[j] # sep
    ELSE 0

\* strings.Split(str, sep)
RECURSIVE Split(_, _)
Split(str, sep) ==
    IF Index(str, sep) = 0 THEN <<str>>
    ELSE <<SubSeq(str, 1, Index(str, sep) - 1)>>
            \o Split(SubSeq(str, Index(str, sep) + 1, Len(str)), sep)

\* strings.SplitN(str, sep, 2)
SplitN2(str, sep) ==
    IF Index(str, sep) = 0 THEN <<str>>
    ELSE <<SubSeq(str, 1, Index(str, sep) - 1), SubSeq(str, Index(str, sep) + 1, Len(str))>>

\* strings.TrimSpace
RECURSIVE TrimSpace(_)
TrimSpace(str) ==
    IF str = <<>> THEN str
    ELSE IF Head(str) = " " THEN TrimSpace(Tail(str))
    ELSE IF Last(str) = " " THEN TrimSpace(Front(str))
    ELSE str

\* strconv.ParseBool, for the two words it accepts here
ParseBool(str) ==
    IF str = <<"true">> THEN [err |-> "nil", value |-> TRUE]
    ELSE IF str = <<"false">> THEN [err |-> "nil", value |-> FALSE]
    ELSE [err |-> "invalid", value |-> FALSE]

\* Feature(k): a key of one word is that name, the empty key the empty name,
\* any other key a name that no feature has
FeatureOf(k) == IF k = <<>> THEN "" ELSE IF Len(k) = 1 THEN k[1] ELSE "F1 F1"

\* a parse that drops a pair it cannot read and goes on
RECURSIVE parsePairsLenient(_, _)
parsePairsLenient(elements, m) ==
    IF elements = <<>> THEN [err |-> "nil", m |-> m]
    ELSE IF Len(Head(elements)) = 0 THEN parsePairsLenient(Tail(elements), m)
    ELSE LET arr == SplitN2(Head(elements), "=")
         IN  IF Len(arr) # 2 THEN parsePairsLenient(Tail(elements), m)
             ELSE IF ParseBool(TrimSpace(arr[2])).err # "nil"
                  THEN parsePairsLenient(Tail(elements), m)
             ELSE parsePairsLenient(Tail(elements),
                     MapPut(m, FeatureOf(TrimSpace(arr[1])),
                            ParseBool(TrimSpace(arr[2])).value))

\* the loop of Set over the elements, filling m
RECURSIVE parsePairs(_, _)
parsePairs(elements, m) ==
    IF elements = <<>> THEN [err |-> "nil", m |-> m]
    ELSE IF Len(Head(elements)) = 0 THEN parsePairs(Tail(elements), m)
    ELSE LET arr == SplitN2(Head(elements), "=")
         IN  IF Len(arr) # 2 THEN [err |-> "missing", m |-> m]
             ELSE IF ParseBool(TrimSpace(arr[2])).err # "nil"
                  THEN [err |-> "invalid", m |-> m]
             ELSE parsePairs(Tail(elements),
                     MapPut(m, FeatureOf(TrimSpace(arr[1])),
                            ParseBool(TrimSpace(arr[2])).value))

\* the map Set hands to SetFromMap, or its error
parsed(value) == parsePairs(Split(value, ","), EmptyMap)

\* Set on snapshots kn and en, p being what it has parsed: what it leaves published
setResult(kn, en, cVer, p, order) ==
    IF p.err # "nil"
    THEN [err |-> p.err, known |-> kn, enabled |-> en]
    ELSE setFromMapResult(kn, en, cVer, p.m, order)

Set(value) ==
    \E p \in {parsed(value)} :
    \E order \in Orders(DOMAIN p.m) :
    \E r \in {setResult(known, enabled, compatibilityVersion, p, order)} :
        /\ known' = r.known
        /\ enabled' = r.enabled
        /\ last' = Call("Set", r.err)
        /\ UNCHANGED <<closed, compatibilityVersion, concVars, call, otherVars>>

NextSet ==
    \/ \E value \in SetValues : Set(value)
    \/ \E c \in AddCalls : Add(c[1], c[2])
    \/ AddFlag
    \/ \E v \in CompatVersions : SetCompatibilityVersion(v)

SpecSet == Init /\ [][NextSet]_vars

----------------------------------------------------------------------------
(* effectiveVersion: the binary, emulation and min-compatibility versions.   *)
(* A version.Version is the list of its components; MajorMinor makes a list  *)
(* of two, a parsed release a list of three.                                 *)

Major(v) == v[1]
Minor(v) == v[2]
MajorMinor(major, minor) == <<major, minor>>
WithPatch(v, patch) == <<Major(v), Minor(v), patch>>

\* the minor lowered by offset, no patch; a minor below offset becomes 0
SubtractMinor(v, offset) ==
    IF Minor(v) < offset THEN MajorMinor(Major(v), 0)
    ELSE MajorMinor(Major(v), Minor(v) - offset)

onlyZeros(array) == \A i \in 1..Len(array) : array[i] = 0

\* the comparison of the components: 1, 0 or -1; of two lists that agree on
\* their common part the longer is bigger when its rest is not all zeros
RECURSIVE compareInternal(_, _)
compareInternal(v, other) ==
    IF v = <<>> THEN (IF onlyZeros(other) THEN 0 ELSE 0 - 1)
    ELSE IF other = <<>> THEN (IF onlyZeros(v) THEN 0 ELSE 1)
    ELSE IF Head(other) < Head(v) THEN 1
    ELSE IF Head(other) > Head(v) THEN 0 - 1
    ELSE compareInternal(Tail(v), Tail(other))

GreaterThan(v, other) == compareInternal(v, other) = 1
LessThan(v, other) == compareInternal(v, other) = 0 - 1
EqualTo(v, other) == compareInternal(v, other) = 0

\* the release in which the emulation version came: version.MajorMinor(1, 31)
EmulationIntroduced == MajorMinor(1, 31)

\* m.Set(binaryVer, emulationVersion, minCompatibilityVersion)
effectiveSet(binaryVer, emulationVersion, minCompatibilityVersion) ==
    [binaryVersion |-> binaryVer,
     emulationVersion |-> MajorMinor(Major(emulationVersion), Minor(emulationVersion)),
     minCompatibilityVersion |->
         MajorMinor(Major(minCompatibilityVersion), Minor(minCompatibilityVersion))]

\* NewEffectiveVersion(binaryVer), binaryVer given as version.MustParse reads it
NewEffectiveVersion(binaryVer) ==
    effectiveSet(binaryVer, binaryVer, SubtractMinor(binaryVer, 1))

\* a Validate that has the same lower bound for every release
validateEveryRelease(m) ==
    LET binaryVer == WithPatch(m.binaryVersion, 0)
        maxEmuVer == binaryVer
        minEmuVer == SubtractMinor(binaryVer, 1)
        maxCompVer == SubtractMinor(binaryVer, 1)
        minCompVer == SubtractMinor(binaryVer, 1)
    IN  (IF GreaterThan(m.emulationVersion, maxEmuVer)
               \/ LessThan(m.emulationVersion, minEmuVer)
         THEN <<"emulation version">> ELSE <<>>)
        \o (IF GreaterThan(m.minCompatibilityVersion, maxCompVer)
                  \/ LessThan(m.minCompatibilityVersion, minCompVer)
            THEN <<"minCompatibilityVersion version">> ELSE <<>>)

\* m.Validate(): the errors, in the order they are appended
validate(m) ==
    LET binaryVer == WithPatch(m.binaryVersion, 0)
        maxEmuVer == binaryVer
        minEmuVer == IF EqualTo(binaryVer, EmulationIntroduced)
                     THEN EmulationIntroduced
                     ELSE SubtractMinor(binaryVer, 1)
        maxCompVer == SubtractMinor(binaryVer, 1)
        minCompVer == SubtractMinor(binaryVer, 1)
    IN  (IF GreaterThan(m.emulationVersion, maxEmuVer)
               \/ LessThan(m.emulationVersion, minEmuVer)
         THEN <<"emulation version">> ELSE <<>>)
        \o (IF GreaterThan(m.minCompatibilityVersion, maxCompVer)
                  \/ LessThan(m.minCompatibilityVersion, minCompVer)
            THEN <<"minCompatibilityVersion version">> ELSE <<>>)

\* a call on the effectiveVersion leaves it as m
EffectiveLeft(op, m, err) ==
    /\ effective' = m
    /\ last' = Call(op, err)
    /\ UNCHANGED <<regVars, concVars, call, copyVars, configVars, evaluatorVars>>

EffectiveSet(binaryVer, emulationVersion, minCompatibilityVersion) ==
    EffectiveLeft("Set",
        effectiveSet(binaryVer, emulationVersion, minCompatibilityVersion), "nil")

SetEmulationVersion(emulationVersion) ==
    EffectiveLeft("SetEmulationVersion",
        [effective EXCEPT !.emulationVersion =
            MajorMinor(Major(emulationVersion), Minor(emulationVersion))], "nil")

SetMinCompatibilityVersion(minCompatibilityVersion) ==
    EffectiveLeft("SetMinCompatibilityVersion",
        [effective EXCEPT !.minCompatibilityVersion =
            MajorMinor(Major(minCompatibilityVersion), Minor(minCompatibilityVersion))],
        "nil")

Validate ==
    EffectiveLeft("Validate", effective,
        IF validate(effective) = <<>> THEN "nil" ELSE "invalid")

\* releases around 1.31, of two majors, with and without a patch
ReleaseMinors == (Minor(EmulationIntroduced) - MaxMinor)..(Minor(EmulationIntroduced) + MaxMinor)
ReleaseMajors == {1, 2}
Releases == {<<major, minor, patch>> :
                major \in ReleaseMajors, minor \in ReleaseMinors, patch \in 0..1}

InitEffective ==
    /\ InitRegistry
    /\ last = Call("NewEffectiveVersion", "nil")
    /\ IdleThreads
    /\ call = NoCall
    /\ copy = NoCopy
    /\ GroupVersionConfigs = EmptyMap
    /\ ResourceConfigs = EmptyMap
    /\ resourceConfig = [compatibilityVersion |-> ZeroVersion, registry |-> NoRegistry,
                         perResource |-> FALSE]
    /\ NoStorage
    /\ effective \in {NewEffectiveVersion(binaryVer) : binaryVer \in Releases}

NextEffective ==
    \/ \E b \in Releases : \E c \in {b, SubtractMinor(b, 1)} : EffectiveSet(b, b, c)
    \/ \E v \in Releases : SetEmulationVersion(v)
    \/ \E v \in Releases : SetMinCompatibilityVersion(v)
    \/ Validate

SpecEffective == InitEffective /\ [][NextEffective]_vars

----------------------------------------------------------------------------
(* What the claims speak of, stated without the code's own resolution. *)

\* (major, minor) compared lexicographically
VersionLE(a, b) == a[1] < b[1] \/ (a[1] = b[1] /\ a[2] <= b[2])

\* the entries of S whose version is at most v, and the latest of them
AtOrBefore(S, v) == {i \in 1..Len(S) : VersionLE(S[i].Version, v)}
Latest(S, v) ==
    {i \in AtOrBefore(S, v) :
        \A j \in AtOrBefore(S, v) : VersionLE(S[j].Version, S[i].Version)}

\* the specs that may be called the spec of S in force at v
Resolved(S, v) ==
    IF AtOrBefore(S, v) = {} THEN {SentinelSpec} ELSE {S[i] : i \in Latest(S, v)}

ResolvedNow(f) == Resolved(known[f], compatibilityVersion)
StageNow(f) == {s.PreRelease : s \in ResolvedNow(f)}
UserKnown == (DOMAIN known) \ {allAlphaGate, allBetaGate}

\* every map a SetFromMap may be given, with the orders of a range over it
SetArgsOrders == {<<m, Orders(DOMAIN m)>> : m \in SetArgs}

\* SetFromMap(m) called in this state, its range visiting the keys in order o
SetNow(m, o) == setFromMapResult(known, enabled, compatibilityVersion, m, o)

\* C1: for every registered feature, Enabled returns the override recorded in
\* enabled when there is one, and otherwise the Default of the feature's spec
\* in force at the compatibility version; it does not panic.
C1_EnabledResolves ==
    \A f \in DOMAIN known :
        /\ ~Enabled(f).panic
        /\ IF f \in DOMAIN enabled
           THEN Enabled(f).value = enabled[f]
           ELSE Enabled(f).value \in {s.Default : s \in ResolvedNow(f)}

\* a feature carries an override against its default, another has none and
\* resolves differently at the compatibility and the binary version
C1_Witness ==
    /\ \E f \in DOMAIN known \cap DOMAIN enabled :
          enabled[f] \notin {s.Default : s \in ResolvedNow(f)}
    /\ \E f \in (DOMAIN known) \ DOMAIN enabled :
          {s.Default : s \in ResolvedNow(f)}
              # {s.Default : s \in Resolved(known[f], binaryVersion)}

\* C2: for a slice S sorted ascending by version and a compatibility version
\* v, getCurrentVersion(S, v) returns an entry of S whose version is the
\* greatest one at most v, and the sentinel {Default: false, PreRelease:
\* PreAlpha} when no entry of S has a version at most v.
C2_GreatestAtOrBefore ==
    call.done =>
        /\ call.ret \in Resolved(call.v, call.cVer)
        /\ AtOrBefore(call.v, call.cVer) = {} <=> call.ret = SentinelSpec

\* the call has skipped a newer entry and returned an older one that is not
\* the first of the slice
C2_Witness ==
    /\ call.done
    /\ Len(call.v) = MaxLen
    /\ VersionGT(call.v[MaxLen].Version, call.cVer)
    /\ VersionLT(call.v[1].Version, call.ret.Version)
    /\ call.ret # SentinelSpec

\* C3: after every successful SetFromMap (a call with AllAlpha or AllBeta
\* included), no feature whose spec in force at the compatibility version has
\* LockToDefault carries an override different from that spec's Default.
C3_LockedNeverOverridden ==
    (last.op = "SetFromMap" /\ last.err = "nil") =>
        \A f \in DOMAIN known \cap DOMAIN enabled :
            \A s \in ResolvedNow(f) : s.LockToDefault => enabled[f] = s.Default

\* C4: SetFromMap({f: v}) returns the "feature is locked" error exactly when f
\* is known, its spec in force has LockToDefault and v differs from its
\* Default; setting a locked feature to its default succeeds.
C4_LockedErrorExactly ==
    \A f \in Features : \A v \in BOOLEAN :
        \A r \in {SetNow([k \in {f} |-> v], <<f>>)} :
            /\ (r.err = "locked") <=>
                  (/\ f \in DOMAIN known
                   /\ \E s \in ResolvedNow(f) : s.LockToDefault /\ s.Default # v)
            /\ (/\ f \in DOMAIN known
                /\ \E s \in ResolvedNow(f) : s.LockToDefault /\ s.Default = v)
                  => (r.err = "nil" /\ r.enabled[f] = v)

\* a call has just been refused for a lock, and the same feature can be set
\* to its default
C4_Witness ==
    /\ last.op = "SetFromMap" /\ last.err = "locked"
    /\ \E f \in UserKnown : \E s \in ResolvedNow(f) :
          /\ s.LockToDefault
          /\ setFromMapResult(known, enabled, compatibilityVersion,
                              [k \in {f} |-> s.Default], <<f>>).err = "nil"
          /\ setFromMapResult(known, enabled, compatibilityVersion,
                              [k \in {f} |-> ~s.Default], <<f>>).err = "locked"

\* C5: a SetFromMap that returns an error leaves the published known and
\* enabled snapshots exactly as they were, whatever valid keys and backfills
\* came before the failing key.
C5_FailedSetChangesNothing ==
    [][(last'.op = "SetFromMap" /\ last'.err # "nil") =>
          (known' = known /\ enabled' = enabled)]_vars

\* a call has just failed, and a call with AllAlpha and an unknown key fails
\* here although its backfill has something to fill
C5_Witness ==
    /\ last.op = "SetFromMap" /\ last.err = "unrecognized"
    /\ \E c \in SetCalls :
          /\ SetNow(c[1], c[2]).err = "unrecognized"
          /\ c[2][1] = allAlphaGate
          /\ \E f \in UserKnown \ DOMAIN enabled : Alpha \in StageNow(f)

stageOf(gate) == IF gate = allAlphaGate THEN Alpha ELSE Beta
SameOverride(f, a, b) ==
    /\ f \in DOMAIN a <=> f \in DOMAIN b
    /\ f \in DOMAIN a => a[f] = b[f]
Toggles(m) == {allAlphaGate, allBetaGate} \cap DOMAIN m

\* C6 as claimed: a successful call with the toggle g = v records v for every
\* registered feature of g's stage without an override, and changes the
\* override of no other feature.
C6_BackfillAsClaimed ==
    \A c \in SetCalls : \A r \in {SetNow(c[1], c[2])} :
        r.err = "nil" =>
            \A g \in Toggles(c[1]) : \A f \in UserKnown :
                IF f \notin DOMAIN enabled /\ StageNow(f) = {stageOf(g)}
                THEN f \in DOMAIN r.enabled /\ r.enabled[f] = c[1][g]
                ELSE SameOverride(f, enabled, r.enabled)

\* C6: a successful call with the toggle g = v records v for every registered
\* feature of g's stage that had no override and is not itself a key of the
\* call; a key of the call gets the value the call gives it; no other feature
\* changes, but for the features that the other toggle of the same call fills.
C6_BackfillOfOtherFeatures ==
    \A c \in SetCalls : \A r \in {SetNow(c[1], c[2])} :
        r.err = "nil" =>
            \A g \in Toggles(c[1]) : \A f \in UserKnown :
                IF f \in DOMAIN c[1]
                THEN r.enabled[f] = c[1][f]
                ELSE IF f \notin DOMAIN enabled /\ StageNow(f) = {stageOf(g)}
                THEN f \in DOMAIN r.enabled /\ r.enabled[f] = c[1][g]
                ELSE IF /\ f \notin DOMAIN enabled
                        /\ \E o \in Toggles(c[1]) : StageNow(f) = {stageOf(o)}
                THEN \E o \in Toggles(c[1]) :
                        /\ StageNow(f) = {stageOf(o)}
                        /\ f \in DOMAIN r.enabled /\ r.enabled[f] = c[1][o]
                ELSE SameOverride(f, enabled, r.enabled)

\* a call with AllAlpha fills an Alpha feature and leaves alone a feature that
\* holds the opposite override
C6_Witness ==
    /\ last.op = "SetFromMap"
    /\ \E c \in SetCalls : \E r \in {SetNow(c[1], c[2])} :
          /\ r.err = "nil" /\ allAlphaGate \in DOMAIN c[1]
          /\ \E f \in UserKnown \ DOMAIN c[1] : \E h \in UserKnown \ DOMAIN c[1] :
                /\ f \notin DOMAIN enabled /\ StageNow(f) = {Alpha}
                /\ r.enabled[f] = c[1][allAlphaGate]
                /\ h \in DOMAIN enabled /\ enabled[h] # c[1][allAlphaGate]
                /\ r.enabled[h] = enabled[h]

\* C7: whether SetFromMap(m) succeeds, and the enabled map it then leaves, do
\* not depend on the order in which the keys of m are visited; every key of m
\* ends with the value m gives it.
C7_OrderIndependent ==
    \A mo \in SetArgsOrders :
        \A rs \in {{SetNow(mo[1], o) : o \in mo[2]}} :
            \A r1 \in rs : \A r2 \in rs :
                /\ r1.err = "nil" <=> r2.err = "nil"
                /\ r1.err = "nil" =>
                      /\ r1.enabled = r2.enabled
                      /\ \A k \in DOMAIN mo[1] : r1.enabled[k] = mo[1][k]

\* AllAlpha=true,F=false and F=false,AllAlpha=true on an unset Alpha feature F
C7_Witness ==
    /\ last.op = "SetFromMap"
    /\ \E f \in UserKnown \ DOMAIN enabled :
          /\ StageNow(f) = {Alpha}
          /\ \A o \in Orders({allAlphaGate, f}) :
                \A r \in {setFromMapResult(known, enabled, compatibilityVersion,
                              [k \in {allAlphaGate, f} |-> k = allAlphaGate], o)} :
                    r.err = "nil" /\ r.enabled[f] = FALSE /\ r.enabled[allAlphaGate]

\* C9: once the registry is closed it stays closed, the known snapshot never
\* changes again, and every Add or AddVersioned returns the closed error.
C9_ClosedStaysClosed ==
    [][closed =>
        /\ closed'
        /\ known' = known
        /\ last'.op \in {"Add", "AddVersioned"} => last'.err = "closed"]_vars

\* an Add or AddVersioned of a new feature has been refused on a closed registry
C9_Witness ==
    /\ closed
    /\ last.op \in {"Add", "AddVersioned"} /\ last.err = "closed"
    /\ UserFeatures \ DOMAIN known # {}

\* the same specs, each as many times, in whatever order
SameSpecs(a, b) ==
    /\ Len(a) = Len(b)
    /\ \A i \in 1..Len(a) :
          Cardinality({j \in 1..Len(a) : a[j] = a[i]})
              = Cardinality({j \in 1..Len(b) : b[j] = a[i]})

\* the features of a call that are registered already
ReAdded(features) == DOMAIN features \cap DOMAIN known

\* C8: on an open registry, an Add or AddVersioned whose already registered
\* features all come with the specs they were registered with, in any order,
\* returns nil and leaves their specs as they are; one that brings a differing
\* spec for a registered feature returns an error and leaves known unchanged.
C8_ReAddIsNoOpOrError ==
    ~closed =>
        \A c \in RegisterCalls \cup {<<stamp(d[1]), d[2]>> : d \in AddCalls} :
            \A r \in {addVersionedResult(known, closed, c[1], c[2])} :
                /\ (\E f \in ReAdded(c[1]) : ~SameSpecs(c[1][f], known[f]))
                      => (r.err # "nil" /\ r.known = known)
                /\ (/\ ReAdded(c[1]) # {}
                    /\ \A f \in ReAdded(c[1]) : SameSpecs(c[1][f], known[f]))
                      => (r.err = "nil" /\ \A f \in ReAdded(c[1]) : r.known[f] = known[f])

InSetFromMap == {"SetCopy", "SetStoreKnown", "SetStoreEnabled", "SetUnlock"}

\* C10: while a SetFromMap(m) is in flight the published enabled map is the
\* map from before the call or the map the whole call leaves, so a load sees
\* none or all of its overrides and backfills; an Enabled(f) of a registered
\* feature returns a value that Enabled(f) had during the call, and no panic.
C10_SnapshotsAreWhole ==
    \A t \in Threads :
        /\ pc[t] \in InSetFromMap =>
              enabled \in
                  {loc[t].before,
                   setFromMapResult(known, loc[t].before, compatibilityVersion,
                                    loc[t].m, loc[t].order).enabled}
        /\ pc[t] = "EnabledReturn" =>
              (~loc[t].ret.panic /\ loc[t].ret \in loc[t].seen)

\* a SetFromMap that writes more than one override has stored its map and
\* still holds the lock, and an Enabled that began before the store, whose
\* value the store changed, is about to return
C10_Witness ==
    \E w \in Threads : \E r \in Threads :
        /\ pc[w] = "SetUnlock" /\ loc[w].r.err = "nil"
        /\ Cardinality((DOMAIN enabled) \ DOMAIN loc[w].before) >= 2
        /\ pc[r] = "EnabledReturn"
        /\ Cardinality(loc[r].seen) = 2

\* C11: no update is lost. No step removes a registered feature or changes its
\* specs, and no step removes an override or changes one that the storing call
\* does not name; the store of a SetFromMap or AddVersioned that returns nil
\* publishes what the whole call, run alone on the maps published at that
\* moment, would leave, so that the calls take effect one after the other.
C11_NoLostUpdate ==
    [][/\ \A k \in DOMAIN known : k \in DOMAIN known' /\ known'[k] = known[k]
       /\ \A k \in DOMAIN enabled :
             /\ k \in DOMAIN enabled'
             /\ \/ enabled'[k] = enabled[k]
                \/ \E t \in Threads :
                      pc[t] = "SetStoreEnabled" /\ k \in DOMAIN loc[t].m
       /\ \A t \in Threads :
             /\ (pc[t] = "SetStoreEnabled" /\ pc'[t] = "SetUnlock") =>
                   /\ enabled' = setFromMapResult(known, enabled, compatibilityVersion,
                                                  loc[t].m, loc[t].order).enabled
                   /\ \A k \in DOMAIN loc[t].m : enabled'[k] = loc[t].m[k]
             /\ (pc[t] = "AddStoreKnown" /\ pc'[t] = "AddUnlock") =>
                   /\ known' = addVersionedResult(known, closed, loc[t].features,
                                                  loc[t].order).known
                   /\ \A k \in DOMAIN loc[t].features : k \in DOMAIN known'
      ]_vars

\* one thread has stored F2 and not yet unlocked, after SetFromMap calls that
\* returned nil and left two overrides: both the feature and the overrides stand
C11_Witness ==
    \E w \in Threads :
        /\ pc[w] = "AddUnlock" /\ loc[w].r.err = "nil"
        /\ "F2" \in DOMAIN loc[w].features /\ "F2" \in DOMAIN known
        /\ last = Call("SetFromMap", "nil")
        /\ Cardinality(DOMAIN enabled) >= 2

\* what a caller can see of a gate: known, the compatibility version, and
\* Enabled(f) of every feature
gateView(x) ==
    <<x.known, x.compatibilityVersion,
      [f \in Features |-> enabledAt(x.enabled, x.known, x.compatibilityVersion, f)]>>

\* C12: once c = g.DeepCopy() is made, a SetFromMap, Add, AddVersioned or
\* SetCompatibilityVersion on c leaves known, the compatibility version and
\* Enabled(f) of g as they were, and such a call on g leaves those of c as
\* they were.
C12_CopyIsIndependent ==
    [][/\ call'.on = "copy" => gateView(Original)' = gateView(Original)
       /\ (call'.on = "original" /\ call'.fn # "DeepCopy" /\ copy.made) =>
             gateView(copy') = gateView(copy)
      ]_vars

\* the copy has registered F2, set overrides and moved its compatibility
\* version; the gate it was made from has none of these
C12_Witness ==
    /\ copy.made /\ call.on = "copy"
    /\ "F2" \in DOMAIN copy.known /\ "F2" \notin DOMAIN known
    /\ copy.enabled # EmptyMap /\ enabled = EmptyMap
    /\ copy.compatibilityVersion = V(1, 1) /\ compatibilityVersion = V(1, 2)

\* C13: SetCompatibilityVersion(v) leaves known and enabled as they were, so no
\* override is added, dropped or checked again, and after it Enabled(f) of
\* every registered feature without an override is the Default of the spec of
\* f resolved at v.
C13_CompatibilityVersionFrame ==
    [][\A v \in CompatVersions :
          SetCompatibilityVersion(v) =>
             /\ known' = known
             /\ enabled' = enabled
             /\ \A f \in DOMAIN known \ DOMAIN enabled :
                   \E s \in Resolved(known[f], v) : Enabled(f)' = Return(s.Default)
      ]_vars

\* the version was moved back to 1.1 with an override in place: F1, which has
\* none, is now off as its 1.1 spec says, though its 1.2 spec says on
C13_Witness ==
    /\ last.op = "SetCompatibilityVersion"
    /\ compatibilityVersion = V(1, 1)
    /\ enabled # EmptyMap
    /\ "F1" \in DOMAIN known \ DOMAIN enabled
    /\ Enabled("F1") = Return(FALSE)
    /\ \A s \in Resolved(known["F1"], binaryVersion) : s.Default = TRUE

\* the entries of the list l that describe feature k: those starting "k="
EntriesFor(l, k) == {i \in 1..Len(l) : HasPrefix(l[i], Bytes(k) \o <<61>>)}

\* C14: KnownFeatures() returns a list sorted as strings, with one entry for
\* AllAlpha, one for AllBeta, one for every other registered feature whose
\* spec resolved at the compatibility version is Alpha or Beta, none for a
\* feature that resolves to GA, Deprecated or PreAlpha, and nothing else.
C14_KnownFeaturesList ==
    call.fn = "KnownFeatures" =>
       /\ \A i \in 1..(Len(call.ret) - 1) : ~stringLess(call.ret[i + 1], call.ret[i])
       /\ \A k \in {allAlphaGate, allBetaGate} : Cardinality(EntriesFor(call.ret, k)) = 1
       /\ \A k \in UserKnown :
             Cardinality(EntriesFor(call.ret, k)) =
                IF StageNow(k) \subseteq {Alpha, Beta} THEN 1 ELSE 0
       /\ \A i \in 1..Len(call.ret) : \E k \in DOMAIN known : i \in EntriesFor(call.ret, k)

\* of two registered features one is listed and the other, now GA, is not
C14_Witness ==
    /\ call.fn = "KnownFeatures" /\ Len(call.ret) = 3
    /\ UserFeatures \subseteq DOMAIN known
    /\ \E k \in UserKnown : StageNow(k) = {GA}
    /\ \E k \in UserKnown : StageNow(k) = {Beta}

\* C15: for a name that is not registered Enabled panics, while
\* StabilityLevel returns (PreAlpha, "0.0", an error) and does not panic; for
\* a registered name StabilityLevel returns the stage and the "major.minor"
\* version of the spec resolved at the compatibility version, and no error.
C15_UnregisteredName ==
    /\ (call.fn = "Enabled" /\ call.key \notin DOMAIN known) => call.ret.panic
    /\ call.fn = "StabilityLevel" =>
          /\ ~call.ret.panic
          /\ IF call.key \notin DOMAIN known
             THEN /\ call.ret.stage = PreAlpha
                  /\ call.ret.version = <<48, 46, 48>>
                  /\ call.ret.err # "nil"
             ELSE /\ call.ret.err = "nil"
                  /\ \E s \in Resolved(known[call.key], compatibilityVersion) :
                        /\ call.ret.stage = s.PreRelease
                        /\ call.ret.version = <<48 + s.Version[1], 46, 48 + s.Version[2]>>

\* StabilityLevel was asked about a name nobody registered
C15_Witness ==
    /\ call.fn = "StabilityLevel"
    /\ call.key \in UserFeatures \ DOMAIN known
    /\ call.ret.err = "not registered"

\* C16: in every known snapshot that Add and AddVersioned calls can leave, no
\* feature has two specs with the same version.
C16_VersionsUnique ==
    \A f \in DOMAIN known :
        \A i, j \in 1..Len(known[f]) :
            known[f][i].Version = known[f][j].Version => i = j

\* the resources of a group version, and the other resources of r's
ResourcesOf(gv) == {r \in Resources : r.GroupVersion = gv}
Siblings(r) == ResourcesOf(r.GroupVersion) \ {r}

\* DisableVersions(gv) and then EnableResources(r), from the maps as they are
DisabledThenEnabled(r) ==
    enableResources(resourceConfig, disableVersions(Config, <<r.GroupVersion>>), <<r>>)

\* EnableVersions(gv) and then DisableResources(r), from the maps as they are
EnabledThenDisabled(r) ==
    disableResources(enableVersions(resourceConfig, Config, <<r.GroupVersion>>), <<r>>)

\* a resource with an entry in ResourceConfigs is reported as the entry says;
\* DisableVersions(gv) then EnableResources(r), r available, leaves r enabled
\* and its siblings disabled
ExplicitEntryWins ==
    /\ \A r \in DOMAIN ResourceConfigs : ResourceEnabled(r) = ResourceConfigs[r]
    /\ \A r \in Resources :
          resourceAvailable(resourceConfig, r) =>
             /\ resourceEnabled(resourceConfig, DisabledThenEnabled(r), r)
             /\ \A x \in Siblings(r) : ~resourceEnabled(resourceConfig, DisabledThenEnabled(r), x)

\* C17 as stated: an explicit entry for r is what ResourceEnabled(r) returns,
\* and EnableVersions(gv) then DisableResources(r) leaves r disabled and its
\* siblings enabled.
C17_SiblingsEnabledAsClaimed ==
    /\ ExplicitEntryWins
    /\ \A r \in Resources :
          /\ ~resourceEnabled(resourceConfig, EnabledThenDisabled(r), r)
          /\ \A x \in Siblings(r) : resourceEnabled(resourceConfig, EnabledThenDisabled(r), x)

\* C17: an explicit entry for r is what ResourceEnabled(r) returns, whatever
\* the setting of its group version. DisableVersions(gv) then
\* EnableResources(r), r available, leaves r enabled and its siblings
\* disabled. EnableVersions(gv) then DisableResources(r) leaves r disabled,
\* and a sibling enabled exactly when gv and the sibling pass the lifecycle
\* check.
C17_ExplicitEntryWins ==
    /\ ExplicitEntryWins
    /\ \A r \in Resources :
          /\ ~resourceEnabled(resourceConfig, EnabledThenDisabled(r), r)
          /\ \A x \in Siblings(r) :
                resourceEnabled(resourceConfig, EnabledThenDisabled(r), x)
                   = (/\ versionAvailable(resourceConfig, r.GroupVersion)
                      /\ resourceAvailable(resourceConfig, x))

\* g/v1 was switched off and its resource a switched on after that: a is
\* enabled by its entry, b has none and is disabled
C17_Witness ==
    /\ last.op = "EnableResources"
    /\ "g/v1" \in DOMAIN GroupVersionConfigs /\ ~GroupVersionConfigs["g/v1"]
    /\ GVR("g/v1", "a") \in DOMAIN ResourceConfigs /\ ResourceEnabled(GVR("g/v1", "a"))
    /\ GVR("g/v1", "b") \notin DOMAIN ResourceConfigs /\ ~ResourceEnabled(GVR("g/v1", "b"))

\* the group versions named in a list
Named(versions) == {versions[i] : i \in 1..Len(versions)}

\* what EnableVersions(versions) and DisableVersions(versions) would leave
AfterVersionCall(versions) ==
    {enableVersions(resourceConfig, Config, versions), disableVersions(Config, versions)}

\* the maps c a call on the given versions leaves have no override in the
\* versions named, and every other group version and every override outside
\* them as it is now
VersionsFrame(c, versions) ==
    /\ \A r \in Resources :
          r.GroupVersion \in Named(versions) => r \notin DOMAIN c.ResourceConfigs
    /\ \A gv \in GroupVersions \ Named(versions) :
          /\ (gv \in DOMAIN c.GroupVersionConfigs) = (gv \in DOMAIN GroupVersionConfigs)
          /\ gv \in DOMAIN GroupVersionConfigs =>
                c.GroupVersionConfigs[gv] = GroupVersionConfigs[gv]
    /\ \A r \in Resources :
          r.GroupVersion \notin Named(versions) =>
             /\ (r \in DOMAIN c.ResourceConfigs) = (r \in DOMAIN ResourceConfigs)
             /\ r \in DOMAIN ResourceConfigs => c.ResourceConfigs[r] = ResourceConfigs[r]

\* C18 as stated: after EnableVersions(gv) or DisableVersions(gv) no resource
\* of gv has an override and ResourceEnabled(r) of every resource of gv is
\* the setting of gv; other group versions and their overrides are unchanged.
C18_FollowsVersionAsClaimed ==
    \A versions \in Lists(GroupVersions) : \A c \in AfterVersionCall(versions) :
        /\ VersionsFrame(c, versions)
        /\ \A r \in Resources :
              r.GroupVersion \in Named(versions) =>
                 resourceEnabled(resourceConfig, c, r) = c.GroupVersionConfigs[r.GroupVersion]

\* C18: after EnableVersions(gv) or DisableVersions(gv) no resource of gv
\* has an override, and ResourceEnabled(r) of every resource of gv is the
\* setting of gv, but false for a resource that fails its own lifecycle
\* check; other group versions and their overrides are unchanged.
C18_VersionCallClearsOverrides ==
    \A versions \in Lists(GroupVersions) : \A c \in AfterVersionCall(versions) :
        /\ VersionsFrame(c, versions)
        /\ \A r \in Resources :
              r.GroupVersion \in Named(versions) =>
                 resourceEnabled(resourceConfig, c, r) =
                    (/\ c.GroupVersionConfigs[r.GroupVersion]
                     /\ resourceAvailable(resourceConfig, r))

\* EnableVersions has just cleared overrides of g/v1, which is now enabled,
\* while an override in g/v2 stands
C18_Witness ==
    /\ last.op = "EnableVersions"
    /\ "g/v1" \in DOMAIN GroupVersionConfigs /\ GroupVersionConfigs["g/v1"]
    /\ \A r \in ResourcesOf("g/v1") : r \notin DOMAIN ResourceConfigs
    /\ ResourceEnabled(GVR("g/v1", "a"))
    /\ GVR("g/v2", "a") \in DOMAIN ResourceConfigs

\* C19: ResourceEnabled(r) is true when r has no entry in ResourceConfigs and
\* its group version has none in GroupVersionConfigs, as on a new
\* ResourceConfig without a registry.
C19_EnabledByDefault ==
    \A r \in Resources :
        (r \notin DOMAIN ResourceConfigs /\ r.GroupVersion \notin DOMAIN GroupVersionConfigs)
            => ResourceEnabled(r)

\* C20: with a registry and a compatibility version other than 0.0, whatever
\* calls were made, ResourceEnabled(r) is true only of a resource that passes
\* the lifecycle check; EnableVersions of a version that fails it leaves the
\* version and its resources disabled, EnableMatchingVersions leaves it not
\* enabled, and EnableResources of a resource that fails it leaves the
\* resource disabled.
C20_UnavailableStaysDisabled ==
    (~resourceConfig.registry.isNil /\ resourceConfig.compatibilityVersion # ZeroVersion) =>
       /\ \A r \in Resources : ResourceEnabled(r) => resourceAvailable(resourceConfig, r)
       /\ \A gv \in GroupVersions :
             ~versionAvailable(resourceConfig, gv) =>
                /\ ~versionEnabled(Config, gv)
                /\ \A c \in {enableVersions(resourceConfig, Config, <<gv>>)} :
                      /\ ~versionEnabled(c, gv)
                      /\ \A r \in ResourcesOf(gv) : ~resourceEnabled(resourceConfig, c, r)
                /\ \A order \in Orders(DOMAIN GroupVersionConfigs) :
                      ~versionEnabled(enableMatchingVersions(resourceConfig, Config,
                                                             GroupVersions, order), gv)
       /\ \A r \in Resources :
             ~resourceAvailable(resourceConfig, r) =>
                ~resourceEnabled(resourceConfig,
                                 enableResources(resourceConfig, Config, <<r>>), r)

\* at 1.1 g/v2 is not there yet: EnableVersions of both left g/v1 enabled and
\* g/v2 with the entry false, its resource a disabled
C20_Witness ==
    /\ last.op = "EnableVersions"
    /\ resourceConfig.compatibilityVersion = V(1, 1) /\ ~resourceConfig.registry.isNil
    /\ GroupVersions \subseteq DOMAIN GroupVersionConfigs
    /\ GroupVersionConfigs["g/v1"] /\ ~GroupVersionConfigs["g/v2"]
    /\ ~ResourceEnabled(GVR("g/v2", "a"))

\* C21: with a registry and a compatibility version c other than 0.0, a group
\* version is available, and EnableVersions records it as enabled, exactly
\* when introduced <= c < removed; at c = removed it is not available and
\* EnableVersions records it as disabled.
InWindow(c, lifecycle) ==
    /\ VersionLE(lifecycle.VersionIntroduced, c)
    /\ VersionLT(c, lifecycle.VersionRemoved)
C21_HalfOpenWindow ==
    (~resourceConfig.registry.isNil /\ resourceConfig.compatibilityVersion # ZeroVersion) =>
        \A gv \in GroupVersions :
            LET in == InWindow(resourceConfig.compatibilityVersion,
                               resourceConfig.registry.groupVersions[gv])
            IN  /\ versionAvailable(resourceConfig, gv) = in
                /\ versionEnabled(enableVersions(resourceConfig, Config, <<gv>>), gv) = in

\* C22: AnyResourceForGroupEnabled(g) is true exactly when some group version
\* of group g has its version-level entry true or some resource of group g has
\* its explicit override true; for a group with no entry at either level it is
\* false.
SomeEntryTrue(group) ==
    \/ \E gv \in DOMAIN GroupVersionConfigs :
          Group(gv) = group /\ GroupVersionConfigs[gv] = TRUE
    \/ \E r \in DOMAIN ResourceConfigs :
          Group(r.GroupVersion) = group /\ ResourceConfigs[r] = TRUE
NoEntry(group) ==
    /\ \A gv \in DOMAIN GroupVersionConfigs : Group(gv) # group
    /\ \A r \in DOMAIN ResourceConfigs : Group(r.GroupVersion) # group
C22_AnyResourceForGroupEnabled ==
    last.op = "AnyResourceForGroupEnabled" =>
        /\ call.ret = SomeEntryTrue(call.group)
        /\ NoEntry(call.group) => call.ret = FALSE
\* the group is reported enabled for an override alone, its version being disabled
C22_Witness ==
    /\ last.op = "AnyResourceForGroupEnabled"
    /\ call.ret = TRUE
    /\ \A gv \in DOMAIN GroupVersionConfigs :
          Group(gv) = call.group => GroupVersionConfigs[gv] = FALSE
    /\ \E gv \in DOMAIN GroupVersionConfigs : Group(gv) = call.group
    /\ \E gv \in DOMAIN GroupVersionConfigs :
          Group(gv) # call.group /\ GroupVersionConfigs[gv] = FALSE

\* a is a lower version than b
Lower(a, b) == VersionLE(a, b) /\ a # b

\* C23: ShouldServeForVersion returns true whenever the compatibility version
\* is lower than the removed version and false whenever it is higher, whatever
\* the flags; when they are equal it returns false if isAlpha and strict, else
\* true if isAlpha, else true if serveRemovedAPIsOneMoreRelease, else false.
C23_ShouldServeForVersion ==
    last.op = "ShouldServeForVersion" =>
        LET c == evaluator.compatibilityVersion
        IN  /\ Lower(c, call.removed) => call.ret = TRUE
            /\ Lower(call.removed, c) => call.ret = FALSE
            /\ c = call.removed =>
                  call.ret = (\/ evaluator.isAlpha /\ ~evaluator.strictRemovedHandlingInAlpha
                              \/ ~evaluator.isAlpha /\ evaluator.serveRemovedAPIsOneMoreRelease)
\* strict handling in alpha wins over one more release, at the removed version
C23_Witness ==
    /\ last.op = "ShouldServeForVersion"
    /\ evaluator.compatibilityVersion = call.removed
    /\ evaluator.isAlpha /\ evaluator.strictRemovedHandlingInAlpha
    /\ evaluator.serveRemovedAPIsOneMoreRelease
    /\ call.ret = FALSE

\* C24: for a compatibility version c other than 0.0 and a storage whose
\* conversion succeeds, shouldServe returns false if the object declares an
\* introduced version greater than c; otherwise true if it declares no removed
\* version, and ShouldServeForVersion(removed) if it declares one. An
\* introduced version equal to or lower than c never blocks serving.
C24_ShouldServe ==
    (/\ last.op = "shouldServe"
     /\ evaluator.compatibilityVersion # ZeroVersion
     /\ call.resourceServingInfo.converts) =>
        LET c == evaluator.compatibilityVersion
            obj == call.resourceServingInfo
        IN  /\ call.ret =
                  IF obj.introduced # Undeclared /\ Lower(c, obj.introduced) THEN FALSE
                  ELSE IF obj.removed = Undeclared THEN TRUE
                  ELSE ShouldServeForVersion(evaluator, obj.removed[1], obj.removed[2])
            /\ (obj.introduced # Undeclared /\ VersionLE(obj.introduced, c)) =>
                  call.ret = shouldServe(evaluator, Storage(TRUE, Undeclared, obj.removed))
\* introduced in the very release, removed later: served
C24_Witness ==
    /\ last.op = "shouldServe"
    /\ evaluator.compatibilityVersion # ZeroVersion
    /\ call.resourceServingInfo.converts
    /\ call.resourceServingInfo.introduced = evaluator.compatibilityVersion
    /\ call.resourceServingInfo.removed # Undeclared
    /\ call.ret = TRUE

\* C25: when the compatibility version is the unset 0.0, lifecycle bounds are
\* ignored entirely: shouldServe returns true for every storage whose
\* conversion succeeds, whatever introduced and removed versions it declares
\* and whatever the flags are.
C25_UnsetIgnoresLifecycle ==
    (/\ last.op = "shouldServe"
     /\ evaluator.compatibilityVersion = ZeroVersion
     /\ call.resourceServingInfo.converts) => call.ret = TRUE

\* the map RemoveDeletedKinds was given and the one it left
Given == call.given
Left(apiVersion, resourceName) ==
    /\ apiVersion \in DOMAIN versionedResourcesStorageMap
    /\ resourceName \in DOMAIN versionedResourcesStorageMap[apiVersion]
\* q is p or a subresource of p: its name starts with p + "/"
Under(q, p) == q = p \/ HasPrefix(Bytes(q), Bytes(p) \o <<47>>)
NotServed(apiVersion, resourceName) ==
    ~shouldServe(evaluator, Given[apiVersion][resourceName])
\* q is neither turned down nor the subresource of a resource that is
Survives(apiVersion, q) ==
    \A p \in DOMAIN Given[apiVersion] : NotServed(apiVersion, p) => ~Under(q, p)

\* C26: after RemoveDeletedKinds, for every API version and every resource p
\* of the input for which shouldServe is false, neither p nor any resource of
\* that version whose name starts with p + "/" remains in the map, even when
\* that subresource on its own would be served.
C26_SubresourcesGoWithParent ==
    last.op = "RemoveDeletedKinds" =>
        \A apiVersion \in DOMAIN Given :
            \A p \in DOMAIN Given[apiVersion], q \in DOMAIN Given[apiVersion] :
                (NotServed(apiVersion, p) /\ Under(q, p)) => ~Left(apiVersion, q)
\* a/s would be served and goes with a; ab, no subresource of a, stays
C26_Witness ==
    /\ last.op = "RemoveDeletedKinds"
    /\ DOMAIN Given["v1"] = {"a", "a/s", "ab"}
    /\ NotServed("v1", "a")
    /\ ~NotServed("v1", "a/s") /\ ~Left("v1", "a/s")
    /\ ~NotServed("v1", "ab") /\ Left("v1", "ab")

\* C27: after RemoveDeletedKinds the map contains no API version whose resource
\* map is empty: every version left with zero resources after pruning, and
\* every version already empty on input, has been deleted, while every version
\* that keeps at least one resource is still present.
C27_NoEmptyVersion ==
    last.op = "RemoveDeletedKinds" =>
        /\ \A apiVersion \in DOMAIN versionedResourcesStorageMap :
              DOMAIN versionedResourcesStorageMap[apiVersion] # {}
        /\ DOMAIN versionedResourcesStorageMap \subseteq DOMAIN Given
        /\ \A apiVersion \in DOMAIN Given :
              apiVersion \in DOMAIN versionedResourcesStorageMap
                 <=> \E q \in DOMAIN Given[apiVersion] : Survives(apiVersion, q)
\* v1 loses all it had and is deleted, v2 keeps its resource and stays
C27_Witness ==
    /\ last.op = "RemoveDeletedKinds"
    /\ DOMAIN Given = {"v1", "v2"}
    /\ DOMAIN Given["v1"] # {}
    /\ DOMAIN versionedResourcesStorageMap = {"v2"}

\* C28: when the converter returns an error for a storage, shouldServe returns
\* false, whatever lifecycle the storage would declare, so RemoveDeletedKinds
\* drops that resource and its subresources and still processes every other
\* resource: what is served and under no dropped resource stays as it was.
C28_ConversionErrorNotServed ==
    /\ \A resourceServingInfo \in Storages :
          ~resourceServingInfo.converts => shouldServe(evaluator, resourceServingInfo) = FALSE
    /\ last.op = "RemoveDeletedKinds" =>
          \A apiVersion \in DOMAIN Given :
              \A q \in DOMAIN Given[apiVersion] :
                  /\ (\E p \in DOMAIN Given[apiVersion] :
                         ~Given[apiVersion][p].converts /\ Under(q, p))
                        => ~Left(apiVersion, q)
                  /\ Survives(apiVersion, q) =>
                        /\ Left(apiVersion, q)
                        /\ versionedResourcesStorageMap[apiVersion][q] = Given[apiVersion][q]
\* a fails to convert and is dropped with a/s; ab is still looked at and kept
C28_Witness ==
    /\ last.op = "RemoveDeletedKinds"
    /\ DOMAIN Given["v1"] = {"a", "a/s", "ab"}
    /\ ~Given["v1"]["a"].converts
    /\ Given["v1"]["a/s"].converts
    /\ ~Left("v1", "a") /\ ~Left("v1", "a/s") /\ Left("v1", "ab")

\* a feature whose only spec has the binary version, as Add leaves it
LoneAtBinary(f) ==
    /\ f \in UserKnown
    /\ Len(known[f]) = 1
    /\ known[f][1].Version = binaryVersion

\* C30: a feature registered through Add has the binary version as its only
\* spec version; so when the compatibility version is lower than the binary
\* version it resolves to the PreAlpha sentinel: Enabled is false without an
\* explicit override, whatever its Default; KnownFeatures omits it; and the
\* AllAlpha and AllBeta backfill does not touch it.
C30_AddedAtBinaryVersion ==
    /\ (last.op = "Add" /\ last.err = "nil") =>
          \A features \in AddArgs : \A f \in DOMAIN features : LoneAtBinary(f)
    /\ \A f \in DOMAIN known :
          (LoneAtBinary(f) /\ Lower(compatibilityVersion, binaryVersion)) =>
              /\ getCurrentVersion(known[f], compatibilityVersion) = SentinelSpec
              /\ f \notin DOMAIN enabled => Enabled(f) = Return(FALSE)
              /\ \A order \in Orders(DOMAIN known) :
                    EntriesFor(knownFeatures(known, compatibilityVersion, order), f) = {}
              /\ \A gate \in {allAlphaGate, allBetaGate}, val \in BOOLEAN :
                    LET r == SetNow([k \in {gate} |-> val], <<gate>>)
                    IN  /\ r.err = "nil"
                        /\ (f \in DOMAIN r.enabled) = (f \in DOMAIN enabled)
\* added with Default true, the compatibility version then lowered, AllAlpha
\* set: the feature is off and has no override
C30_Witness ==
    /\ LoneAtBinary("F1")
    /\ known["F1"][1].Default = TRUE
    /\ Lower(compatibilityVersion, binaryVersion)
    /\ last.op = "SetFromMap" /\ last.err = "nil"
    /\ allAlphaGate \in DOMAIN enabled /\ enabled[allAlphaGate] = TRUE
    /\ "F1" \notin DOMAIN enabled
    /\ Enabled("F1") = Return(FALSE)

\* the places of a call that takes no lock
ReadPlaces ==
    {"EnabledLoadEnabled", "EnabledLoadKnown", "EnabledReturn",
     "ReadLoadKnown", "ReadLoadEnabled", "ReadReturn"}

\* C29: no operation of the registry blocks for ever: every write operation
\* releases the lock on every path, error returns included, so under fair
\* scheduling every call made eventually completes, and the reads never wait
\* for the lock: their next step can be taken whoever holds it.
C29_EveryCallCompletes ==
    /\ \A t \in Threads : (pc[t] # "idle") ~> (pc[t] = "idle")
    /\ [](\A t \in Threads : pc[t] \in ReadPlaces => ENABLED <<Proceed(t)>>_vars)
    /\ [](\A t \in Threads : pc[t] = "idle" => lock # t)
\* a call waits in f.lock.Lock() while the holder is on its way out with an error
C29_Witness ==
    \E t \in Threads, u \in Threads :
        /\ pc[t] \in DOMAIN AfterLock
        /\ lock = u
        /\ pc[u] \in {"SetUnlock", "AddUnlock", "CompatUnlock"}
        /\ loc[u].r.err # "nil"

\* the maps that set f to val, alone or next to one of the two toggles
SettingOf(f, val) ==
    {[k \in {f} |-> val]}
       \cup {[k \in {f, gate} |-> IF k = f THEN val ELSE b] :
                gate \in {allAlphaGate, allBetaGate}, b \in BOOLEAN}

\* C31: SetFromMap of a registered feature that has no spec version at or
\* before the compatibility version succeeds, and Enabled then returns the
\* value set.
C31_SetBeforeFirstVersion ==
    \A f \in UserKnown :
        AtOrBefore(known[f], compatibilityVersion) = {} =>
            \A val \in BOOLEAN : \A m \in SettingOf(f, val) : \A o \in Orders(DOMAIN m) :
                LET r == SetNow(m, o)
                IN  /\ r.err = "nil"
                    /\ enabledAt(r.enabled, r.known, compatibilityVersion, f) = Return(val)
\* F1 has its only spec at 1.2, the compatibility version is below, F1 was set
C31_Witness ==
    /\ "F1" \in DOMAIN known
    /\ AtOrBefore(known["F1"], compatibilityVersion) = {}
    /\ last = Call("SetFromMap", "nil")
    /\ "F1" \in DOMAIN enabled /\ enabled["F1"] = TRUE
    /\ Enabled("F1") = Return(TRUE)
    /\ getCurrentVersion(known["F1"], compatibilityVersion).Default = FALSE

\* an element of value starts at i: no comma there, and none before it or
\* the string starts there
ElementAt(value, i) == value[i] # "," /\ (i = 1 \/ value[i - 1] = ",")

\* where the element that starts at i ends
ElementEnd(value, i) ==
    CHOOSE j \in i..Len(value) :
        /\ j = Len(value) \/ value[j + 1] = ","
        /\ \A n \in i..j : value[n] # ","

\* the element has no "=", or what follows its first "=" is not one boolean
\* word with blanks around it
Unreadable(value, i, j) ==
    \/ \A n \in i..j : value[n] # "="
    \/ \E e \in i..j :
          /\ value[e] = "=" /\ \A n \in i..(e - 1) : value[n] # "="
          /\ ~\E w \in (e + 1)..j :
                /\ value[w] \in {"true", "false"}
                /\ \A n \in ((e + 1)..j) \ {w} : value[n] = " "

Malformed(value) ==
    \E i \in 1..Len(value) :
        ElementAt(value, i) /\ Unreadable(value, i, ElementEnd(value, i))

SetNowOf(value, o) == setResult(known, enabled, compatibilityVersion, parsed(value), o)

\* C32: a string with a non-empty element that lacks "=" or whose value is
\* not a boolean makes Set return an error and leave enabled as it was; a
\* string of empty elements only succeeds and leaves enabled as it was, and
\* an empty element added before or after a string changes nothing of what
\* Set reads from it.
C32_MalformedSetsNothing ==
    \A value \in SetValues :
        LET p == parsed(value)
        IN  /\ Malformed(value) =>
                  /\ p.err \in {"missing", "invalid"}
                  /\ \A o \in Orders(DOMAIN p.m) :
                        LET r == setResult(known, enabled, compatibilityVersion, p, o)
                        IN  r.err = p.err /\ r.enabled = enabled
            /\ (\A n \in 1..Len(value) : value[n] = ",") =>
                  LET r == setResult(known, enabled, compatibilityVersion, p, <<>>)
                  IN  r.err = "nil" /\ r.enabled = enabled
            /\ Len(value) < MaxChars =>
                  /\ parsed(value \o <<",">>) = p
                  /\ parsed(<<",">> \o value) = p
\* F1 is registered and enabled by an earlier Set; a Set whose second element
\* has no "=" has just failed, and F1=false before it was not applied
C32_Witness ==
    /\ last = Call("Set", "missing")
    /\ "F1" \in DOMAIN enabled /\ enabled["F1"] = TRUE
    /\ Malformed(<<"F1", "=", "false", ",", "F1">>)
    /\ SetNowOf(<<"F1", "=", "false", ",", "F1">>, <<>>).enabled = enabled
    /\ SetNowOf(<<"F1", "=", "false">>, <<"F1">>).enabled # enabled

\* the versions the registry was given: at construction, and by the calls of
\* SetCompatibilityVersion
VersionsGiven == {binaryVersion} \cup {parseVersion(v) : v \in EmulatedArgs}

\* C33: a read that runs while SetCompatibilityVersion(v) runs resolves the
\* specs against the version before the call or against v: the version a
\* reader has copied from the registry is one the registry was given.
C33_WholeVersionRead ==
    \A t \in Threads : loc[t].cVer # NoVersion => loc[t].cVer \in VersionsGiven

\* no override of a resource of gv is in the overrides rc
NoOverrideIn(rc, gv) == \A k \in DOMAIN rc : ~resourceMatcherForVersion(gv, k)

\* C34: after EnableMatchingVersions(m) or DisableMatchingVersions(m) no
\* override of a resource remains for any group version that has an entry and
\* that m matches, and the calls add no group version.
C34_MatchedVersionsCleared ==
    \A matcher \in Matchers : \A order \in Orders(DOMAIN GroupVersionConfigs) :
        LET en == enableMatchingVersions(resourceConfig, Config, matcher, order)
            dis == disableMatchingVersions(Config, matcher, order)
        IN  /\ DOMAIN en.GroupVersionConfigs = DOMAIN GroupVersionConfigs
            /\ DOMAIN dis.GroupVersionConfigs = DOMAIN GroupVersionConfigs
            /\ \A gv \in matcher \cap DOMAIN GroupVersionConfigs :
                  /\ NoOverrideIn(en.ResourceConfigs, gv)
                  /\ NoOverrideIn(dis.ResourceConfigs, gv)

\* C35: RemoveDeletedKinds keeps a resource, with its storage as it was, if
\* and only if shouldServe is true of it and it is no subresource of a
\* resource of its version that shouldServe turns down; a parent stays when
\* only its subresource goes, a name that merely starts with a removed name
\* stays, and no resource and no version is added.
C35_RemovesExactly ==
    last.op = "RemoveDeletedKinds" =>
        /\ DOMAIN versionedResourcesStorageMap \subseteq DOMAIN Given
        /\ \A apiVersion \in DOMAIN versionedResourcesStorageMap :
              DOMAIN versionedResourcesStorageMap[apiVersion] \subseteq DOMAIN Given[apiVersion]
        /\ \A apiVersion \in DOMAIN Given : \A q \in DOMAIN Given[apiVersion] :
              /\ Left(apiVersion, q) <=>
                    /\ ~NotServed(apiVersion, q)
                    /\ \A p \in DOMAIN Given[apiVersion] \ {q} :
                          NotServed(apiVersion, p) => ~Under(q, p)
              /\ Left(apiVersion, q) =>
                    versionedResourcesStorageMap[apiVersion][q] = Given[apiVersion][q]
\* a/s is turned down and goes, its parent a stays; in another call a is
\* turned down and ab stays
C35_Witness ==
    /\ last.op = "RemoveDeletedKinds"
    /\ DOMAIN Given["v1"] = {"a", "a/s", "ab"}
    /\ NotServed("v1", "a/s") /\ ~NotServed("v1", "a") /\ ~NotServed("v1", "ab")
    /\ ~Left("v1", "a/s") /\ Left("v1", "a") /\ Left("v1", "ab")
    /\ versionedResourcesStorageMap["v1"]["a"] = Given["v1"]["a"]

\* C39: RemoveDeletedKinds is idempotent: applied to the map that a call has
\* left, with the same evaluator, it removes no resource and no version.
C39_Idempotent ==
    last.op = "RemoveDeletedKinds" =>
        removeDeletedKinds(evaluator, versionedResourcesStorageMap)
            = versionedResourcesStorageMap
\* the second of two calls: it was given what the first had left, v1 gone
C39_Witness ==
    /\ last.op = "RemoveDeletedKinds"
    /\ Given = versionedResourcesStorageMap
    /\ "v1" \notin DOMAIN versionedResourcesStorageMap
    /\ DOMAIN versionedResourcesStorageMap # {}

\* every feature of known is in known after the step, with the same specs
KnownKept == \A f \in DOMAIN known : f \in DOMAIN known' /\ known'[f] = known[f]

\* C36: known only grows and what is committed does not change: no step of
\* Add, AddVersioned, AddFlag, SetFromMap or SetCompatibilityVersion, failed
\* or not, removes a feature from known or changes its specs, and every
\* list of specs in known is sorted by version, oldest first.
C36_KnownOnlyGrows ==
    /\ [](\A f \in DOMAIN known : IsSorted(known[f]))
    /\ [][KnownKept]_vars
\* F1 has two specs, written newest first by its caller, and a later
\* AddVersioned of F1 with other specs has failed
C36_Witness ==
    /\ last = Call("AddVersioned", "different")
    /\ "F1" \in DOMAIN known
    /\ known["F1"] = SortSpecs(AlphaThenBeta)
    /\ known["F1"] # AlphaThenBeta

\* Enabled(key) on the copy
EnabledOnCopy(key) == enabledAt(copy.enabled, copy.known, copy.compatibilityVersion, key)

\* C37: in the registry and in its DeepCopy every key of enabled is a key of
\* known, and Enabled returns no value for a name that is not registered.
C37_EnabledWithinKnown ==
    /\ DOMAIN enabled \subseteq DOMAIN known
    /\ \A key \in Features \ DOMAIN known : Enabled(key) = Panic
    /\ copy.made =>
          /\ DOMAIN copy.enabled \subseteq DOMAIN copy.known
          /\ \A key \in Features \ DOMAIN copy.known : EnabledOnCopy(key) = Panic
\* SetFromMap of F2, which the copy does not know, has just failed on the
\* copy; the original knows F2 and has it set
C37_Witness ==
    /\ copy.made
    /\ last = Call("SetFromMap", "unrecognized")
    /\ call = CallOn("SetFromMap", "copy")
    /\ "F2" \notin DOMAIN copy.known /\ EnabledOnCopy("F2") = Panic
    /\ copy.enabled # EmptyMap
    /\ "F2" \in DOMAIN enabled /\ Enabled("F2") = Return(TRUE)

\* the map that sets one toggle
Toggle(gate, val) == [k \in {gate} |-> val]
StageOf(gate) == IF gate = allAlphaGate THEN Alpha ELSE Beta

\* C38: what a toggle has filled in is an override like any other. A call
\* that sets a toggle, followed by a call that sets it to the opposite value,
\* both succeed; the second changes the entry of the toggle and nothing else,
\* so the features the first call filled keep its value; and a toggle set in
\* any state fills only the features of its stage that have no override.
C38_BackfillStays ==
    \A gate \in specialFeatures : \A val \in BOOLEAN :
        LET first == SetNow(Toggle(gate, val), <<gate>>)
            second == setFromMapResult(first.known, first.enabled, compatibilityVersion,
                                       Toggle(gate, ~val), <<gate>>)
            filled == gatesOfStage(known, StageOf(gate), compatibilityVersion)
                          \ DOMAIN enabled
        IN  /\ first.err = "nil" /\ second.err = "nil"
            /\ DOMAIN first.enabled = DOMAIN enabled \cup {gate} \cup filled
            /\ \A k \in DOMAIN first.enabled :
                  first.enabled[k] = IF k = gate \/ k \in filled THEN val ELSE enabled[k]
            /\ DOMAIN second.enabled = DOMAIN first.enabled
            /\ \A k \in DOMAIN second.enabled :
                  second.enabled[k] = IF k = gate THEN ~val ELSE first.enabled[k]
\* AllAlpha is now false, set by the last call, and F1, an alpha feature that
\* an earlier AllAlpha=true filled, is still enabled
C38_Witness ==
    /\ last = Call("SetFromMap", "nil")
    /\ allAlphaGate \in DOMAIN enabled /\ enabled[allAlphaGate] = FALSE
    /\ "F1" \in gatesOfStage(known, Alpha, compatibilityVersion)
    /\ "F1" \in DOMAIN enabled /\ enabled["F1"] = TRUE
    /\ Enabled("F1") = Return(TRUE)

\* major.minor of a version, compared as a pair of numbers
Pair(v) == <<v[1], v[2]>>
PairLE(a, b) == a[1] < b[1] \/ (a[1] = b[1] /\ a[2] <= b[2])

\* the emulation version is in [binary minor - 1, binary], from 1.31 when the
\* binary is 1.31; the min-compatibility version is binary minor - 1
EmulationInRange(m) ==
    LET b == Pair(m.binaryVersion)
        lowest == IF b = <<1, 31>> THEN b ELSE <<b[1], b[2] - 1>>
    IN  PairLE(lowest, Pair(m.emulationVersion)) /\ PairLE(Pair(m.emulationVersion), b)
MinCompatibilityInRange(m) ==
    Pair(m.minCompatibilityVersion) = <<m.binaryVersion[1], m.binaryVersion[2] - 1>>

\* C40: Validate looks at major.minor only; it returns no error exactly when
\* the emulation version is in its range and the min-compatibility version
\* is the binary's minor less one, one error for each of the two that is not,
\* the emulation version's first; NewEffectiveVersion(b) has the emulation
\* version b and the min-compatibility version b less one minor, both
\* without patch.
C40_ValidateWindow ==
    /\ validate(effective) =
          (IF EmulationInRange(effective) THEN <<>> ELSE <<"emulation version">>)
          \o (IF MinCompatibilityInRange(effective) THEN <<>>
              ELSE <<"minCompatibilityVersion version">>)
    /\ \A patch \in 0..1 :
          validate([effective EXCEPT !.binaryVersion = WithPatch(@, patch)])
              = validate(effective)
    /\ \A b \in Releases :
          /\ NewEffectiveVersion(b).binaryVersion = b
          /\ NewEffectiveVersion(b).emulationVersion = <<b[1], b[2]>>
          /\ NewEffectiveVersion(b).minCompatibilityVersion = <<b[1], b[2] - 1>>
    /\ last = Call("Validate", "nil") =>
          EmulationInRange(effective) /\ MinCompatibilityInRange(effective)
\* the binary is 1.31.1 and the emulation version was set to 1.30: Validate
\* has returned the one error, for the emulation version
C40_Witness ==
    /\ last = Call("Validate", "invalid")
    /\ effective.binaryVersion = <<1, 31, 1>>
    /\ effective.emulationVersion = <<1, 30>>
    /\ effective.minCompatibilityVersion = <<1, 30>>
    /\ validate(effective) = <<"emulation version">>


====
